---- MODULE Spec2Model ----
(***************************************************************************)
(* A model of psclient (src/psclient/__init__.py): the protocol message    *)
(* parser (Message), the session registries (Connection.roomList and       *)
(* Connection.userList), the per-room authority mapping (Room.auth), the   *)
(* rate-limited send and the inbound dispatch (Connection.handleMessage).  *)
(*                                                                         *)
(* Text is a sequence of one-character strings, so that split, strip, join *)
(* and toID are computed as the code computes them.  A Python None is the  *)
(* empty sequence <<>> and a present value v is <<v>>; a raised exception  *)
(* is its class name, "" when nothing was raised.                          *)
(***************************************************************************)
EXTENDS Integers, Sequences, FiniteSets, TLC

\* ------------------------------------------------------------------ text

LowerCase ==
  <<"a","b","c","d","e","f","g","h","i","j","k","l","m",
    "n","o","p","q","r","s","t","u","v","w","x","y","z">>

UpperCase ==
  <<"A","B","C","D","E","F","G","H","I","J","K","L","M",
    "N","O","P","Q","R","S","T","U","V","W","X","Y","Z">>

Digits ==
  <<"0","1","2","3","4","5","6","7","8","9">>

Range(f) ==
  {f[i] : i \in DOMAIN f}

\* the character class [0-9a-zA-Z] of toID's regular expression
Alnum ==
  Range(LowerCase) \cup Range(UpperCase) \cup Range(Digits)

IsAlnum(c) ==
  c \in Alnum

\* the lower-case letter of each upper-case letter
LowerOf ==
  [c \in Range(UpperCase) |->
     LowerCase[CHOOSE i \in DOMAIN UpperCase : UpperCase[i] = c]]

\* str.lower() on one character
lower(c) ==
  IF c \in DOMAIN LowerOf THEN LowerOf[c] ELSE c

\* a toID without the .lower()
toID_cased(string) ==
  SelectSeq(string, IsAlnum)

\* re.sub('[^0-9a-zA-Z]+', '', string).lower()
toID(string) ==
  LET kept == SelectSeq(string, IsAlnum)
  IN  [i \in 1..Len(kept) |-> lower(kept[i])]

\* the characters str.strip() removes when called without an argument
Whitespace ==
  {" ", "\n", "\t", "\r"}

\* str.strip(chars): drop the leading and the trailing characters in chars
strip(s, chars) ==
  LET keep == {i \in 1..Len(s) : s[i] \notin chars}
  IN  IF keep = {} THEN <<>>
      ELSE SubSeq(s, CHOOSE i \in keep : \A j \in keep : i <= j,
                     CHOOSE i \in keep : \A j \in keep : i >= j)

\* str.split("|"): the fields between the pipes, at least one field
split(s) ==
  LET bars == {i \in 1..Len(s) : s[i] = "|"}
      n    == Cardinality(bars)
      bar(k) == IF k = 0 THEN 0
                ELSE IF k = n + 1 THEN Len(s) + 1
                ELSE CHOOSE p \in bars : Cardinality({q \in bars : q < p}) = k - 1
  IN  [k \in 1..(n + 1) |-> SubSeq(s, bar(k - 1) + 1, bar(k) - 1)]

\* "|".join(fields)
RECURSIVE join(_)
join(fields) ==
  IF Len(fields) = 0 THEN <<>>
  ELSE IF Len(fields) = 1 THEN fields[1]
  ELSE fields[1] \o <<"|">> \o join(Tail(fields))

\* the Python slice fields[k:], k counted from 0
from(fields, k) ==
  SubSeq(fields, k + 1, Len(fields))

\* the Python index fields[k], k counted from 0, is defined (no IndexError)
has(fields, k) ==
  k < Len(fields)

\* the Python index fields[k], k counted from 0
at(fields, k) ==
  fields[k + 1]

\* ------------------------------------------------------------- literals

S_challstr == <<"c","h","a","l","l","s","t","r">>
S_ct == <<"c",":">>
S_c == <<"c">>
S_chat == <<"c","h","a","t">>
S_J == <<"J">>
S_j == <<"j">>
S_join == <<"j","o","i","n">>
S_L == <<"L">>
S_l == <<"l">>
S_leave == <<"l","e","a","v","e">>
S_pm == <<"p","m">>
S_queryresponse == <<"q","u","e","r","y","r","e","s","p","o","n","s","e">>
S_roominfo == <<"r","o","o","m","i","n","f","o">>
S_init == <<"i","n","i","t">>
S_lobby == <<"l","o","b","b","y">>
S_joinCmd == <<"|","/","j","o","i","n"," ">>
S_roominfoCmd == <<"/","c","m","d"," ","r","o","o","m","i","n","f","o"," ">>
S_part == <<"/","p","a","r","t">>
S_trn == <<"|","/","t","r","n"," ">>
S_zero == <<",","0",",">>
S_adduhtml == <<"/","a","d","d","u","h","t","m","l"," ">>

\* ranksInOrder = list("+%☆@★*#&~"); the two stars, which are not ASCII, are
\* written as their code points
ranksInOrder ==
  <<"+", "%", "U+2606", "@", "U+2605", "*", "#", "&", "~">>

None == <<>>

\* ------------------------------------------------------------ entities

\* Room.__init__: the name is not kept, auth starts as the empty dictionary
Room(name) ==
  [id |-> toID(name), auth |-> [k \in {} |-> {}]]

\* User.__init__; the field this tells the session's own User object
\* (Connection.this) from every other User object
User(name) ==
  [name |-> name, id |-> toID(name), this |-> FALSE]

\* the username the session was constructed with
Username ==
  <<"C">>

\* Connection.this = User(username, self)
This ==
  [name |-> Username, id |-> toID(Username), this |-> TRUE]

\* an updateAuth without the loop that adds to a set that is there
updateAuth_absent(auth, authDict) ==
  [key \in (DOMAIN auth) \cup (DOMAIN authDict) |->
     IF key \in DOMAIN auth THEN auth[key] ELSE authDict[key]]

\* an updateAuth that stores the given list in place of the set it has
updateAuth_replace(auth, authDict) ==
  [key \in (DOMAIN auth) \cup (DOMAIN authDict) |->
     IF key \in DOMAIN authDict THEN authDict[key] ELSE auth[key]]

\* Room.updateAuth on the dictionary auth; authDict maps ranks to the
\* identifiers listed for them
updateAuth(auth, authDict) ==
  [key \in (DOMAIN auth) \cup (DOMAIN authDict) |->
     IF key \in DOMAIN authDict
     THEN IF key \in DOMAIN auth
          THEN auth[key] \cup authDict[key]
          ELSE authDict[key]
     ELSE auth[key]]

\* list.index(item), counted from 0; None stands for the ValueError
index(list, item) ==
  IF item \notin Range(list) THEN None
  ELSE <<(CHOOSE i \in DOMAIN list :
            list[i] = item /\ \A j \in 1..(i - 1) : list[j] # item) - 1>>

\* the loop of Room.usersWithRankGEQ over the ranks that are left
RECURSIVE unionOver(_, _, _)
unionOver(auth, ranks, userIDList) ==
  IF ranks = <<>> THEN userIDList
  ELSE unionOver(auth, Tail(ranks),
                 IF Head(ranks) \in DOMAIN auth
                 THEN userIDList \cup auth[Head(ranks)]
                 ELSE userIDList)

\* a usersWithRankGEQ that starts its loop one rank too high
usersWithRankGEQ_above(auth, rank) ==
  IF index(ranksInOrder, rank) = None
  THEN [returned |-> None, raised |-> "ValueError"]
  ELSE [returned |->
          <<unionOver(auth, from(ranksInOrder, index(ranksInOrder, rank)[1] + 1), {})>>,
        raised |-> ""]

\* Room.usersWithRankGEQ on the dictionary auth: what it returns, or the
\* exception it raises
usersWithRankGEQ(auth, rank) ==
  IF index(ranksInOrder, rank) = None
  THEN [returned |-> None, raised |-> "ValueError"]
  ELSE [returned |->
          <<unionOver(auth, from(ranksInOrder, index(ranksInOrder, rank)[1]), {})>>,
        raised |-> ""]

\* a canUseHTML that accepts any rank of the scale
canUseHTML_anyRank(rooms, user, room) ==
  IF room = None
  THEN FALSE
  ELSE user.id \in usersWithRankGEQ(rooms[room[1]].auth, "+").returned[1]

\* User.canUseHTML(room); room is None or a Room object of rooms. A Room
\* object is never falsy: Room defines neither __bool__ nor __len__
canUseHTML(rooms, user, room) ==
  IF room = None
  THEN FALSE
  ELSE user.id \in usersWithRankGEQ(rooms[room[1]].auth, "*").returned[1]

\* ----------------------------------------------------------- registries
\* rooms is the sequence of the Room objects created so far (an object is
\* its index), roomList the set of the objects in Connection.roomList.
\* userList is Connection.userList, a dictionary in insertion order: an
\* entry holds its key (a User object), the value (a set of room IDs) and
\* ref, which names the Python set object the value is: two entries with
\* the same ref hold the same set object.

\* the orders in which a Python set of objects may be iterated: the order
\* follows the objects' hashes, and stays as it is while the set does
Orders(S) ==
  {p \in [1..Cardinality(S) -> S] : Range(p) = S}

\* a getRoom that compares the name as it is given
getRoom_exact(rooms, ord, name) ==
  LET objects == SelectSeq(ord, LAMBDA r : rooms[r].id = name)
  IN  IF Len(objects) = 0 THEN None ELSE <<objects[1]>>

\* Connection.getRoom; ord is the iteration order of roomList
getRoom(rooms, ord, name) ==
  LET roomid  == toID(name)
      objects == SelectSeq(ord, LAMBDA r : rooms[r].id = roomid)
  IN  IF Len(objects) = 0 THEN None ELSE <<objects[1]>>

\* the first entry of userList whose key has this ID, 0 when there is none
FirstWithID(userList, userid) ==
  LET hits == {i \in 1..Len(userList) : userList[i].user.id = userid}
  IN  IF hits = {} THEN 0 ELSE CHOOSE i \in hits : \A j \in hits : i <= j

\* Connection.getUser
getUser(userList, userid) ==
  IF userid = This.id THEN <<This>>
  ELSE IF FirstWithID(userList, userid) = 0 THEN None
  ELSE <<userList[FirstWithID(userList, userid)].user>>

\* Connection.getUserRooms
getUserRooms(userList, user) ==
  IF FirstWithID(userList, user.id) = 0 THEN None
  ELSE <<userList[FirstWithID(userList, user.id)].rooms>>

\* the set object of entry k changed to rooms, seen through every entry
\* that holds the same object
SetRooms(userList, k, rooms) ==
  [i \in 1..Len(userList) |->
     IF userList[i].ref = userList[k].ref
     THEN [userList[i] EXCEPT !.rooms = rooms]
     ELSE userList[i]]

\* the entry of userList whose key is this very object, 0 when there is none
KeyIndex(userList, user, hint) ==
  IF user.this
  THEN LET hits == {i \in 1..Len(userList) : userList[i].user.this}
       IN  IF hits = {} THEN 0 ELSE CHOOSE i \in hits : TRUE
  ELSE hint

\* a userJoinedRoom that stores the room as the user's only room
userJoinedRoom_replaces(rooms, userList, user, room) ==
  LET k == FirstWithID(userList, user.id)
  IN  IF room = None
      THEN [userList |-> userList, raised |-> "AttributeError"]
      ELSE IF k = 0
      THEN [userList |-> Append(userList,
                           [user |-> user, rooms |-> {rooms[room[1]].id},
                            ref |-> Len(userList) + 1]),
            raised |-> ""]
      ELSE [userList |-> SetRooms(userList, k, {rooms[room[1]].id}),
            raised |-> ""]

\* Connection.userJoinedRoom; room is None or <<the Room object>>
userJoinedRoom(rooms, userList, user, room) ==
  LET k == FirstWithID(userList, user.id)
  IN  IF room = None
      THEN [userList |-> userList, raised |-> "AttributeError"]
      ELSE IF k = 0
      THEN [userList |-> Append(userList,
                           [user |-> user, rooms |-> {rooms[room[1]].id},
                            ref |-> Len(userList) + 1]),
            raised |-> ""]
      ELSE [userList |-> SetRooms(userList, k,
                           userList[k].rooms \cup {rooms[room[1]].id}),
            raised |-> ""]

\* a userLeftRoom that never takes the room out of the set
userLeftRoom_keeps(rooms, userList, user, room) ==
  [userList |-> userList, raised |-> ""]

\* a userLeftRoom that drops the entry of a user who is left without a room
userLeftRoom_forgets(rooms, userList, user, room) ==
  LET k == FirstWithID(userList, user.id)
  IN  IF k = 0
      THEN [userList |-> userList, raised |-> ""]
      ELSE IF room = None
      THEN [userList |-> userList, raised |-> "AttributeError"]
      ELSE IF userList[k].rooms \subseteq {rooms[room[1]].id}
      THEN [userList |-> SubSeq(userList, 1, k - 1)
                           \o SubSeq(userList, k + 1, Len(userList)),
            raised |-> ""]
      ELSE [userList |-> SetRooms(userList, k,
                           userList[k].rooms \ {rooms[room[1]].id}),
            raised |-> ""]

\* Connection.userLeftRoom; room is None or <<the Room object>>
userLeftRoom(rooms, userList, user, room) ==
  LET k == FirstWithID(userList, user.id)
  IN  IF k = 0
      THEN [userList |-> userList, raised |-> ""]
      ELSE IF room = None
      THEN [userList |-> userList, raised |-> "AttributeError"]
      ELSE IF rooms[room[1]].id \notin userList[k].rooms
      THEN [userList |-> userList, raised |-> ""]
      ELSE LET removed == SetRooms(userList, k,
                            userList[k].rooms \ {rooms[room[1]].id})
               key     == getUser(removed, user.id)[1]
               at_     == KeyIndex(removed, key, k)
           IN  [userList |->
                  IF at_ = 0
                  THEN Append(removed, [user |-> key,
                                        rooms |-> removed[k].rooms,
                                        ref |-> removed[k].ref])
                  ELSE [removed EXCEPT ![at_] =
                          [@ EXCEPT !.rooms = removed[k].rooms,
                                    !.ref = removed[k].ref]],
                raised |-> ""]

\* -------------------------------------------------------------- Message
\* Decoding one raw text yields the registries as the decoding left them,
\* the Message object (None when the constructor raised) and the exception.

\* the attributes Message.__init__ sets before it looks at the text
BlankMessage ==
  [type |-> None, room |-> None, sender |-> None, senderName |-> None,
   body |-> None, time |-> None, challstr |-> None]

Decoded(rooms, userList, message) ==
  [rooms |-> rooms, userList |-> userList, message |-> <<message>>, raised |-> ""]

Raised(rooms, userList, exception) ==
  [rooms |-> rooms, userList |-> userList, message |-> None, raised |-> exception]

\* the JSON documents of the roominfo payloads; in a text, a document is one
\* character that names it
JsonDocs ==
  [doc \in {"{a:users}", "{a:auth}", "{z:users}", "{users}", "{z:all}"} |->
     CASE doc = "{a:users}" ->
            [id |-> <<"A"," ">>, users |-> << <<"b">>, <<"#","B"," ">>, <<"c">> >>]
       [] doc = "{a:auth}" ->
            [id |-> <<"a">>, auth |-> [k \in {"*"} |-> {<<"C">>}]]
       [] doc = "{z:users}" ->
            [id |-> <<"z">>, users |-> << <<"b">> >>]
       [] doc = "{users}" ->
            [users |-> << <<"b">> >>]
       [] doc = "{z:all}" ->
            [id |-> <<"z">>, auth |-> [k \in {"*"} |-> {<<"c">>}],
             users |-> << <<"b">> >>]]

\* json.loads: None stands for a JSONDecodeError
loads(text) ==
  LET doc == strip(text, Whitespace)
  IN  IF Len(doc) = 1 /\ doc[1] \in DOMAIN JsonDocs THEN <<JsonDocs[doc[1]]>> ELSE None

\* Message._setSender: the User object the sender field resolves to
setSender(userList, name) ==
  IF getUser(userList, toID(name)) = None THEN User(name)
  ELSE getUser(userList, toID(name))[1]

\* a _setRoom that does not read the first field
setRoom_lobby(rooms, ord, fields) ==
  getRoom(rooms, ord, S_lobby)

\* Message._setRoom
setRoom(rooms, ord, fields) ==
  LET roomid == strip(strip(at(fields, 0), {">"}), {"\n"})
  IN  getRoom(rooms, ord, IF roomid = <<>> THEN S_lobby ELSE roomid)

\* a _handleChat that looks for the rank in the sender field as it is,
\* whitespace included
handleChat_unstripped(rooms, ord, userList, fields) ==
  LET hasTimestamp == at(fields, 1) = S_ct
      room     == setRoom(rooms, ord, fields)
      at0      == IF hasTimestamp THEN 3 ELSE 2
      username == at(fields, at0)
      userid   == username
      rank     == userid[1]
      ranked   == [rooms EXCEPT ![room[1]].auth =
                     updateAuth(@, [k \in {rank} |-> {toID(Tail(userid))}])]
      message ==
        [BlankMessage EXCEPT
           !.type = <<S_chat>>,
           !.room = room,
           !.time = IF hasTimestamp THEN <<at(fields, 2)>> ELSE None,
           !.senderName = <<username>>,
           !.sender = <<setSender(userList, username)>>,
           !.body = <<strip(join(from(fields, at0 + 1)), {"\n"})>>]
  IN  IF ~has(fields, at0) THEN Raised(rooms, userList, "IndexError")
      ELSE IF userid = <<>> THEN Raised(rooms, userList, "IndexError")
      ELSE IF rank \in Range(ranksInOrder)
      THEN IF room = None THEN Raised(rooms, userList, "AttributeError")
           ELSE Decoded(ranked, userList, message)
      ELSE Decoded(rooms, userList, message)

\* Message._handleChat
handleChat(rooms, ord, userList, fields) ==
  LET hasTimestamp == at(fields, 1) = S_ct
      room     == setRoom(rooms, ord, fields)
      at0      == IF hasTimestamp THEN 3 ELSE 2
      username == at(fields, at0)
      userid   == strip(username, Whitespace)
      rank     == userid[1]
      ranked   == [rooms EXCEPT ![room[1]].auth =
                     updateAuth(@, [k \in {rank} |-> {toID(Tail(userid))}])]
      message ==
        [BlankMessage EXCEPT
           !.type = <<S_chat>>,
           !.room = room,
           !.time = IF hasTimestamp THEN <<at(fields, 2)>> ELSE None,
           !.senderName = <<username>>,
           !.sender = <<setSender(userList, username)>>,
           !.body = <<strip(join(from(fields, at0 + 1)), {"\n"})>>]
  IN  IF ~has(fields, at0) THEN Raised(rooms, userList, "IndexError")
      ELSE IF userid = <<>> THEN Raised(rooms, userList, "IndexError")
      ELSE IF rank \in Range(ranksInOrder)
      THEN IF room = None THEN Raised(rooms, userList, "AttributeError")
           ELSE Decoded(ranked, userList, message)
      ELSE Decoded(rooms, userList, message)

\* Message._handleJoinLeave
handleJoinLeave(rooms, ord, userList, fields, isJoin) ==
  LET room   == setRoom(rooms, ord, fields)
      sender == setSender(userList, at(fields, 2))
      done   == IF isJoin THEN userJoinedRoom(rooms, userList, sender, room)
                ELSE userLeftRoom(rooms, userList, sender, room)
      message ==
        [BlankMessage EXCEPT
           !.type = <<IF isJoin THEN S_join ELSE S_leave>>,
           !.room = room,
           !.senderName = <<at(fields, 2)>>,
           !.sender = <<sender>>]
  IN  IF ~has(fields, 2) THEN Raised(rooms, userList, "IndexError")
      ELSE IF done.raised # "" THEN Raised(rooms, done.userList, done.raised)
      ELSE Decoded(rooms, done.userList, message)

\* a _handlePM that takes the body from the recipient field on
handlePM_recipient(rooms, userList, fields) ==
  IF ~has(fields, 2) THEN Raised(rooms, userList, "IndexError")
  ELSE Decoded(rooms, userList,
         [BlankMessage EXCEPT
            !.type = <<S_pm>>,
            !.body = <<strip(join(from(fields, 3)), {"\n"})>>,
            !.senderName = <<at(fields, 2)>>,
            !.sender = <<setSender(userList, at(fields, 2))>>])

\* a _handlePM that gives the sender an entry in userList
handlePM_registers(rooms, userList, fields) ==
  IF ~has(fields, 2) THEN Raised(rooms, userList, "IndexError")
  ELSE Decoded(rooms,
         Append(userList, [user |-> setSender(userList, at(fields, 2)),
                           rooms |-> {}, ref |-> Len(userList) + 1]),
         [BlankMessage EXCEPT
            !.type = <<S_pm>>,
            !.body = <<strip(join(from(fields, 4)), {"\n"})>>,
            !.senderName = <<at(fields, 2)>>,
            !.sender = <<setSender(userList, at(fields, 2))>>])

\* Message._handlePM
handlePM(rooms, userList, fields) ==
  IF ~has(fields, 2) THEN Raised(rooms, userList, "IndexError")
  ELSE Decoded(rooms, userList,
         [BlankMessage EXCEPT
            !.type = <<S_pm>>,
            !.body = <<strip(join(from(fields, 4)), {"\n"})>>,
            !.senderName = <<at(fields, 2)>>,
            !.sender = <<setSender(userList, at(fields, 2))>>])

\* a loop that stops after the first of roomData['users']
joinAll_first(rooms, userList, users, room) ==
  IF users = <<>> THEN userList
  ELSE LET found == getUser(userList, toID(Head(users)))
           userObject == IF found = None THEN User(toID(Head(users))) ELSE found[1]
       IN  userJoinedRoom(rooms, userList, userObject, room).userList

\* the loop of Message._handleQuery over roomData['users']
RECURSIVE joinAll(_, _, _, _)
joinAll(rooms, userList, users, room) ==
  IF users = <<>> THEN userList
  ELSE LET found == getUser(userList, toID(Head(users)))
           userObject == IF found = None THEN User(toID(Head(users))) ELSE found[1]
       IN  joinAll(rooms, userJoinedRoom(rooms, userList, userObject, room).userList,
                   Tail(users), room)

\* a _handleQuery that makes a Room object for an ID that getRoom does not
\* find
handleQuery_creates(rooms, ord, userList, fields) ==
  LET message  == [BlankMessage EXCEPT !.type = <<S_queryresponse>>]
      roomData == loads(at(fields, 3))[1]
      found    == IF "id" \in DOMAIN roomData
                  THEN getRoom(rooms, ord, roomData.id) ELSE None
      created  == IF "id" \in DOMAIN roomData /\ found = None
                  THEN Append(rooms, Room(roomData.id)) ELSE rooms
      room     == IF "id" \in DOMAIN roomData /\ found = None
                  THEN <<Len(created)>> ELSE found
      merged   == IF room # None /\ "auth" \in DOMAIN roomData
                  THEN [created EXCEPT ![room[1]].auth = updateAuth(@, roomData.auth)]
                  ELSE created
      joined   == IF room # None /\ "users" \in DOMAIN roomData
                  THEN joinAll(merged, userList, roomData.users, room)
                  ELSE userList
  IN  IF ~has(fields, 2) THEN Raised(rooms, userList, "IndexError")
      ELSE IF at(fields, 2) # S_roominfo THEN Decoded(rooms, userList, message)
      ELSE IF ~has(fields, 3) THEN Raised(rooms, userList, "IndexError")
      ELSE IF loads(at(fields, 3)) = None
      THEN Raised(rooms, userList, "JSONDecodeError")
      ELSE Decoded(merged, joined, message)

\* Message._handleQuery
handleQuery(rooms, ord, userList, fields) ==
  LET message  == [BlankMessage EXCEPT !.type = <<S_queryresponse>>]
      roomData == loads(at(fields, 3))[1]
      room     == IF "id" \in DOMAIN roomData
                  THEN getRoom(rooms, ord, roomData.id) ELSE None
      merged   == IF room # None /\ "auth" \in DOMAIN roomData
                  THEN [rooms EXCEPT ![room[1]].auth = updateAuth(@, roomData.auth)]
                  ELSE rooms
      joined   == IF room # None /\ "users" \in DOMAIN roomData
                  THEN joinAll(merged, userList, roomData.users, room)
                  ELSE userList
  IN  IF ~has(fields, 2) THEN Raised(rooms, userList, "IndexError")
      ELSE IF at(fields, 2) # S_roominfo THEN Decoded(rooms, userList, message)
      ELSE IF ~has(fields, 3) THEN Raised(rooms, userList, "IndexError")
      ELSE IF loads(at(fields, 3)) = None
      THEN Raised(rooms, userList, "JSONDecodeError")
      ELSE Decoded(merged, joined, message)

\* a Message that lowers the tag before it classifies it
Message_caseless(rooms, ord, userList, raw) ==
  LET fields == split(raw)
      type   == [i \in DOMAIN at(fields, 1) |-> lower(at(fields, 1)[i])]
  IN  IF ~has(fields, 1) THEN Raised(rooms, userList, "IndexError")
      ELSE IF type = S_challstr
      THEN Decoded(rooms, userList,
             [BlankMessage EXCEPT !.type = <<type>>,
                                  !.challstr = <<join(from(fields, 2))>>])
      ELSE IF type \in {S_ct, S_c, S_chat}
      THEN handleChat(rooms, ord, userList, fields)
      ELSE IF type \in {S_j, S_join}
      THEN handleJoinLeave(rooms, ord, userList, fields, TRUE)
      ELSE IF type \in {S_l, S_leave}
      THEN handleJoinLeave(rooms, ord, userList, fields, FALSE)
      ELSE IF type = S_pm THEN handlePM(rooms, userList, fields)
      ELSE IF type = S_queryresponse
      THEN handleQuery(rooms, ord, userList, fields)
      ELSE Decoded(rooms, userList, [BlankMessage EXCEPT !.type = <<type>>])

\* Message.__init__: Message(raw, connection)
Message(rooms, ord, userList, raw) ==
  LET fields == split(raw)
      type   == at(fields, 1)
  IN  IF ~has(fields, 1) THEN Raised(rooms, userList, "IndexError")
      ELSE IF type = S_challstr
      THEN Decoded(rooms, userList,
             [BlankMessage EXCEPT !.type = <<type>>,
                                  !.challstr = <<join(from(fields, 2))>>])
      ELSE IF type \in {S_ct, S_c, S_chat}
      THEN handleChat(rooms, ord, userList, fields)
      ELSE IF type \in {S_J, S_j, S_join}
      THEN handleJoinLeave(rooms, ord, userList, fields, TRUE)
      ELSE IF type \in {S_L, S_l, S_leave}
      THEN handleJoinLeave(rooms, ord, userList, fields, FALSE)
      ELSE IF type = S_pm THEN handlePM(rooms, userList, fields)
      ELSE IF type = S_queryresponse
      THEN handleQuery(rooms, ord, userList, fields)
      ELSE Decoded(rooms, userList, [BlankMessage EXCEPT !.type = <<type>>])

\* what a call of respondHTML comes to: the room it says a text in, if any,
\* and the exception it raises, if any
Responds(room, text) ==
  [say |-> <<[room |-> room, text |-> text]>>, raised |-> ""]

RespondsNothing ==
  [say |-> None, raised |-> ""]

RespondRaises(exception) ==
  [say |-> None, raised |-> exception]

\* Message.respondHTML(html), up to the say it awaits. In the branch of a
\* private message, iterating the None that getUserRooms returns for an
\* unknown sender raises TypeError, and so does `r in None` when the sender
\* is in a room and the session's user has no entry; for the first common
\* room ID that getRoom finds, canUseHTML is called with two arguments,
\* which raises TypeError before its result is looked at, so that the say
\* of '/pminfobox' after it never runs
respondHTML(rooms, ord, userList, message, html) ==
  LET senderRooms == getUserRooms(userList, message.sender[1])
      thisRooms   == getUserRooms(userList, This)
      possibleRoomIDs ==
        IF senderRooms[1] = {} THEN {} ELSE senderRooms[1] \cap thisRooms[1]
  IN  IF message.room # None /\ canUseHTML(rooms, This, message.room)
      THEN Responds(message.room[1], S_adduhtml \o This.id \o <<",">> \o html)
      ELSE IF message.sender # None /\ message.room = None
      THEN IF senderRooms = None THEN RespondRaises("TypeError")
           ELSE IF senderRooms[1] # {} /\ thisRooms = None
           THEN RespondRaises("TypeError")
           ELSE IF \E r \in possibleRoomIDs : getRoom(rooms, ord, r) # None
           THEN RespondRaises("TypeError")
           ELSE RespondsNothing
      ELSE RespondsNothing

\* -------------------------------------------------------------- session

\* the throttle window of Connection.send, in milliseconds
Window == 600

\* the Room objects the program creates
MaxRooms == 2

VARIABLES
  rooms,       \* the Room objects created so far, each [id, auth]
  roomList,    \* Connection.roomList: the Room objects joined
  order,       \* the order in which iterating roomList yields its objects
  userList,    \* Connection.userList
  isLoggedIn,  \* Connection.isLoggedIn
  elapsed,     \* time.time() * 1000.0 - Connection.lastSentTime, up to Window
  chatlogger,  \* whether the session was given a chat logger
  caller,      \* where connect() is: "connect" in waitForLogin, then "ready"
  pc,          \* where each task is
  message,     \* the Message handleMessage decoded from the last raw text
  raised,      \* the exception the last handleMessage call ended with
  returned,    \* the Message the last handleMessage call returned
  logged,      \* the Messages the chat logger got from that call
  logins,      \* the challstrs login was called with by that call
  previous,    \* type, sender ID and room of the Message decoded before the last
  transmit,    \* the last transmission: time since the one before, and
               \* whether its send slept, and the text handed to the
               \* websocket
  result       \* what the program's last call of a query method came to

vars ==
  <<rooms, roomList, order, userList, isLoggedIn, elapsed, chatlogger, caller, pc,
    message, raised, returned, logged, logins, previous, transmit, result>>

registries == <<rooms, roomList, order, userList>>

\* everything but result
session ==
  <<rooms, roomList, order, userList, isLoggedIn, elapsed, chatlogger, caller, pc,
    message, raised, returned, logged, logins, previous, transmit>>

\* before any call: nothing returned, nothing raised
NoResult == [call |-> "", args |-> <<>>, returned |-> None, raised |-> ""]

\* the end of a call of the method call with the arguments args, from what
\* the method came to
ended(call, args, outcome) ==
  [call |-> call, args |-> args,
   returned |-> outcome.returned, raised |-> outcome.raised]

\* the end of a call that returns value
returns(call, args, value) ==
  [call |-> call, args |-> args, returned |-> value, raised |-> ""]

inbound == <<message, raised, returned, logged, logins, previous>>

\* the task reading the transport (getMessage, messages) and the task
\* running the program's own calls
Tasks == {"reader", "app"}

Idle == [at |-> "idle", op |-> "", room |-> 0, slept |-> FALSE, text |-> <<>>]

\* a task inside time.sleep() stops every task of the event loop
Asleep == \E t \in Tasks : pc[t].at = "sleep"

\* a send without the throttle
send_unthrottled(since, op, room, text) ==
  [at |-> "wsend", op |-> op, room |-> room, slept |-> FALSE, text |-> text]

\* Connection.send up to its first suspension: sleep out the rest of the
\* window (time.sleep) or go straight to the awaited websocket.send
send(since, op, room, text) ==
  LET timeDiff == since - Window
  IN  [at |-> IF timeDiff < 0 THEN "sleep" ELSE "wsend",
       op |-> op, room |-> room, slept |-> timeDiff < 0, text |-> text]

\* the assertion of the login server's answer, one opaque token
Assertion == <<"assertion">>

\* Connection.login up to its first suspension:
\* send('|/trn <name>,0,<assertion>')
login(since) ==
  send(since, "login", 0, S_trn \o Username \o S_zero \o Assertion)

\* Room.say up to its first suspension, send('<id>|<message>'), on behalf of
\* the method op that awaits it
roomSay(since, op, r, text) ==
  send(since, op, r, rooms[r].id \o <<"|">> \o text)

\* set.add leaving the set as it was
add_nothing(set, item) ==
  set

\* set.add, as in roomList.add(self)
add(set, item) ==
  set \cup {item}

\* the last statement of handleMessage, return Message(message, self): the
\* constructor is given the Message object as its raw text, and a Message
\* has no split
rewrap(decoded) ==
  [returned |-> None, raised |-> "AttributeError"]

\* what previous keeps of a Message
Summary(m) ==
  IF m = None THEN None
  ELSE <<[type |-> m[1].type,
          id |-> IF m[1].sender = None THEN None ELSE <<m[1].sender[1].id>>,
          room |-> m[1].room]>>

\* the session as Connection.__init__ leaves it, connect() about to call
\* waitForLogin
Init ==
  /\ rooms = <<>>
  /\ roomList = {}
  /\ order = <<>>
  /\ userList = <<>>
  /\ isLoggedIn = FALSE
  /\ elapsed = Window
  /\ chatlogger \in BOOLEAN
  /\ caller = "connect"
  /\ pc = [t \in Tasks |-> Idle]
  /\ message = None
  /\ raised = ""
  /\ returned = None
  /\ logged = <<>>
  /\ logins = <<>>
  /\ previous = None
  /\ transmit = None
  /\ result = NoResult

\* Connection.waitForLogin, called by connect(): the loop runs getMessage
\* while isLoggedIn holds, and connect() returns when it ends
waitForLogin ==
  /\ caller = "connect"
  /\ ~isLoggedIn
  /\ caller' = "ready"
  /\ UNCHANGED <<registries, isLoggedIn, elapsed, chatlogger, pc, inbound, transmit, result>>

\* Connection.getMessage and Connection.messages: one raw text is received
\* and given to Connection.handleMessage, up to its return or to the
\* suspension inside login
handleMessage(raw) ==
  /\ caller = "ready" \/ (caller = "connect" /\ isLoggedIn)
  /\ pc["reader"].at = "idle"
  /\ ~Asleep
  /\ \E decoded \in {Message(rooms, order, userList, raw)} :
         /\ rooms' = decoded.rooms
         /\ userList' = decoded.userList
         /\ message' = decoded.message
         /\ previous' = Summary(message)
         /\ IF decoded.raised # ""
            THEN /\ raised' = decoded.raised
                 /\ returned' = None
                 /\ logged' = <<>>
                 /\ logins' = <<>>
                 /\ pc' = pc
            ELSE /\ logged' = IF chatlogger THEN decoded.message ELSE <<>>
                 /\ IF decoded.message[1].challstr \notin {None, <<<<>>>>}
                    THEN /\ logins' = decoded.message[1].challstr
                         /\ pc' = [pc EXCEPT !["reader"] = login(elapsed)]
                         /\ raised' = ""
                         /\ returned' = None
                    ELSE /\ logins' = <<>>
                         /\ pc' = pc
                         /\ raised' = rewrap(decoded.message[1]).raised
                         /\ returned' = rewrap(decoded.message[1]).returned
  /\ UNCHANGED <<roomList, order, isLoggedIn, elapsed, chatlogger, caller, transmit, result>>

\* Room(name, connection)
newRoom(name) ==
  /\ caller = "ready"
  /\ ~Asleep
  /\ Len(rooms) < MaxRooms
  /\ rooms' = Append(rooms, Room(name))
  /\ UNCHANGED <<roomList, order, userList, isLoggedIn, elapsed, chatlogger, caller,
                 pc, inbound, transmit, result>>

\* Room.updateAuth(authDict), called by the program on the Room object r
roomUpdateAuth(r, authDict) ==
  /\ caller = "ready"
  /\ ~Asleep
  /\ rooms' = [rooms EXCEPT ![r].auth = updateAuth(@, authDict)]
  /\ UNCHANGED <<roomList, order, userList, isLoggedIn, elapsed, chatlogger, caller,
                 pc, inbound, transmit, result>>

\* Room.usersWithRankGEQ(rank), called by the program on the Room object r
roomUsersWithRankGEQ(r, rank) ==
  /\ caller = "ready"
  /\ ~Asleep
  /\ result' = ended("usersWithRankGEQ", <<r, rank>>,
                   usersWithRankGEQ(rooms[r].auth, rank))
  /\ UNCHANGED session

\* user.canUseHTML(room), called by the program
canUseHTML_(user, room) ==
  /\ caller = "ready"
  /\ ~Asleep
  /\ result' = returns("canUseHTML", <<user, room>>, <<canUseHTML(rooms, user, room)>>)
  /\ UNCHANGED session

\* Message(raw, connection), constructed by the program
newMessage(raw) ==
  /\ caller = "ready"
  /\ ~Asleep
  /\ pc["app"].at = "idle"
  /\ \E decoded \in {Message(rooms, order, userList, raw)} :
       /\ rooms' = decoded.rooms
       /\ userList' = decoded.userList
       /\ result' = ended("Message", <<raw>>,
                          [returned |-> decoded.message, raised |-> decoded.raised])
  /\ UNCHANGED <<roomList, order, isLoggedIn, elapsed, chatlogger, caller, pc,
                 inbound, transmit>>

\* message.respondHTML(html), called by the program on the Message it
\* constructed last, up to its first suspension or its end
respondHTML_(html) ==
  /\ caller = "ready"
  /\ ~Asleep
  /\ pc["app"].at = "idle"
  /\ result.call = "Message"
  /\ result.returned # None
  /\ \E outcome \in {respondHTML(rooms, order, userList, result.returned[1], html)} :
       /\ result' = ended("respondHTML", <<result.returned[1], html>>,
                          [returned |-> None, raised |-> outcome.raised])
       /\ pc' = IF outcome.say = None THEN pc
                ELSE [pc EXCEPT !["app"] =
                        roomSay(elapsed, "respondHTML", outcome.say[1].room,
                                outcome.say[1].text)]
  /\ UNCHANGED <<registries, isLoggedIn, elapsed, chatlogger, caller, inbound, transmit>>

\* toID(string), called by the program
toID_(string) ==
  /\ result' = returns("toID", <<string>>, toID(string))
  /\ UNCHANGED session

\* Connection.getRoom(name), called by the program
getRoom_(name) ==
  /\ caller = "ready"
  /\ ~Asleep
  /\ result' = returns("getRoom", <<name>>, getRoom(rooms, order, name))
  /\ UNCHANGED session

\* Connection.getUser(userid), called by the program
getUser_(userid) ==
  /\ caller = "ready"
  /\ ~Asleep
  /\ result' = returns("getUser", <<userid>>, getUser(userList, userid))
  /\ UNCHANGED session

\* Connection.userJoinedRoom(user, room), called by the program with a User
\* object and the Room object r
userJoinedRoom_(user, r) ==
  /\ caller = "ready"
  /\ ~Asleep
  /\ pc["app"].at = "idle"
  /\ \E outcome \in {userJoinedRoom(rooms, userList, user, <<r>>)} :
       /\ userList' = outcome.userList
       /\ result' = ended("userJoinedRoom", <<user, r>>,
                          [returned |-> None, raised |-> outcome.raised])
  /\ UNCHANGED <<rooms, roomList, order, isLoggedIn, elapsed, chatlogger, caller,
                 pc, inbound, transmit>>

\* Connection.userLeftRoom(user, room), called by the program with a User
\* object and the Room object r
userLeftRoom_(user, r) ==
  /\ caller = "ready"
  /\ ~Asleep
  /\ pc["app"].at = "idle"
  /\ \E outcome \in {userLeftRoom(rooms, userList, user, <<r>>)} :
       /\ userList' = outcome.userList
       /\ result' = ended("userLeftRoom", <<user, r>>,
                          [returned |-> None, raised |-> outcome.raised])
  /\ UNCHANGED <<rooms, roomList, order, isLoggedIn, elapsed, chatlogger, caller,
                 pc, inbound, transmit>>

\* Room.join up to its first suspension: send('|/join <id>')
join_(r) ==
  /\ caller = "ready"
  /\ ~Asleep
  /\ pc["app"].at = "idle"
  /\ pc' = [pc EXCEPT !["app"] = send(elapsed, "join", r, S_joinCmd \o rooms[r].id)]
  /\ UNCHANGED <<registries, isLoggedIn, elapsed, chatlogger, caller, inbound, transmit, result>>

\* Room.say(message) up to its first suspension
say(r, text) ==
  /\ caller = "ready"
  /\ ~Asleep
  /\ pc["app"].at = "idle"
  /\ pc' = [pc EXCEPT !["app"] = roomSay(elapsed, "say", r, text)]
  /\ UNCHANGED <<registries, isLoggedIn, elapsed, chatlogger, caller, inbound, transmit, result>>

\* a leave that also forgets the room
leave_forgets(r) ==
  /\ caller = "ready"
  /\ ~Asleep
  /\ pc["app"].at = "idle"
  /\ pc' = [pc EXCEPT !["app"] = roomSay(elapsed, "leave", r, S_part)]
  /\ roomList' = roomList \ {r}
  /\ order' \in Orders(roomList')
  /\ UNCHANGED <<rooms, userList, isLoggedIn, elapsed, chatlogger, caller, inbound, transmit, result>>

\* Room.leave up to its first suspension: say('/part')
leave(r) ==
  /\ caller = "ready"
  /\ ~Asleep
  /\ pc["app"].at = "idle"
  /\ pc' = [pc EXCEPT !["app"] = roomSay(elapsed, "leave", r, S_part)]
  /\ UNCHANGED <<registries, isLoggedIn, elapsed, chatlogger, caller, inbound, transmit, result>>

\* time passes: d more milliseconds since lastSentTime
tick(d) ==
  /\ elapsed < Window
  /\ elapsed' = IF elapsed + d < Window THEN elapsed + d ELSE Window
  /\ UNCHANGED <<registries, isLoggedIn, chatlogger, caller, pc, inbound, transmit, result>>

\* time.sleep((-1 * timeDiff) / 1000.0) in Connection.send returns, and the
\* task goes on to the awaited websocket.send
wake(t) ==
  /\ pc[t].at = "sleep"
  /\ elapsed >= Window
  /\ pc' = [pc EXCEPT ![t].at = "wsend"]
  /\ UNCHANGED <<registries, isLoggedIn, elapsed, chatlogger, caller, inbound, transmit, result>>

\* the awaited websocket.send of Connection.send returns: lastSentTime is
\* set, and the caller of send runs on to its next suspension or its end
sent(t) ==
  /\ pc[t].at = "wsend"
  /\ ~Asleep
  /\ elapsed' = 0
  /\ transmit' = <<[gap |-> elapsed, slept |-> pc[t].slept, text |-> pc[t].text]>>
  /\ IF pc[t].op = "login"
     THEN \* Connection.login, then the return of handleMessage
          /\ isLoggedIn' = TRUE
          /\ raised' = rewrap(message[1]).raised
          /\ returned' = rewrap(message[1]).returned
          /\ pc' = [pc EXCEPT ![t] = Idle]
          /\ UNCHANGED <<roomList, order>>
     ELSE IF pc[t].op = "join"
     THEN \* Room.join: roomList.add(self), then say('/cmd roominfo <id>')
          /\ roomList' = add(roomList, pc[t].room)
          /\ IF roomList' = roomList THEN order' = order
             ELSE order' \in Orders(roomList')
          /\ pc' = [pc EXCEPT ![t] = roomSay(0, "joined", pc[t].room,
                                             S_roominfoCmd \o rooms[pc[t].room].id)]
          /\ UNCHANGED <<isLoggedIn, raised, returned>>
     ELSE /\ pc' = [pc EXCEPT ![t] = Idle]
          /\ UNCHANGED <<roomList, order, isLoggedIn, raised, returned>>
  /\ UNCHANGED <<rooms, userList, chatlogger, caller, message, logged, logins, previous, result>>

\* -------------------------------------------------------------- inputs

\* a raw text: the first field, then the other fields, pipes between
line(first, fields) ==
  first \o <<"|">> \o join(fields)

\* the message the program says in a room
Greeting == <<"h", "i">>

RoomA == <<">", "a", "\n">>
RoomZ == <<">", "z", "\n">>

\* the names given to Room()
RoomNames ==
  {<<"a">>, <<"A", " ">>, S_lobby}

\* the raw texts of the session specification: a challstr with a pipe in
\* it and two without a payload, a frame without an effect, one join, and a
\* text without a pipe
SessionFrames ==
  { line(<<>>, <<S_challstr, <<"4">>, <<"x">>>>),
    line(<<>>, <<S_challstr, <<>>>>),
    line(<<>>, <<S_challstr>>),
    line(<<>>, <<S_init, S_chat>>),
    line(RoomA, <<S_J, <<"b">>>>),
    <<"h", "i">> }

\* the session from its construction on
Next ==
  \/ waitForLogin
  \/ \E raw \in SessionFrames : handleMessage(raw)
  \/ newRoom(<<"a">>)
  \/ \E r \in 1..Len(rooms) : join_(r)
  \/ \E r \in 1..Len(rooms) : say(r, Greeting)
  \/ \E r \in 1..Len(rooms) : leave(r)
  \/ tick(Window)
  \/ \E t \in Tasks : wake(t)
  \/ \E t \in Tasks : sent(t)

Spec ==
  Init /\ [][Next]_vars

\* the program's own sends alone, one after another, with the clock read
\* three times a window
SendNext ==
  \/ waitForLogin
  \/ newRoom(<<"a">>)
  \/ \E r \in 1..Len(rooms) : join_(r)
  \/ \E r \in 1..Len(rooms) : say(r, Greeting)
  \/ \E r \in 1..Len(rooms) : leave(r)
  \/ tick(Window \div 3)
  \/ wake("app")
  \/ sent("app")

SendSpec ==
  Init /\ [][SendNext]_vars

\* the same, where time passes, a sleep ends when its time is over and the
\* transport completes a websocket.send it was given
FairSendSpec ==
  /\ SendSpec
  /\ WF_vars(tick(Window \div 3))
  /\ WF_vars(wake("app"))
  /\ WF_vars(sent("app"))

\* a session that connect() has returned and whose rooms are joined, before
\* any raw text has arrived
Joined ==
  /\ rooms \in UNION {[1..n -> {Room(name) : name \in RoomNames}] : n \in 0..MaxRooms}
  /\ roomList = DOMAIN rooms
  /\ order \in Orders(roomList)
  /\ userList = <<>>
  /\ isLoggedIn = FALSE
  /\ elapsed = Window
  /\ chatlogger = FALSE
  /\ caller = "ready"
  /\ pc = [t \in Tasks |-> Idle]
  /\ message = None
  /\ raised = ""
  /\ returned = None
  /\ logged = <<>>
  /\ logins = <<>>
  /\ previous = None
  /\ transmit = None
  /\ result = NoResult

\* the join and leave frames: of one user in the room a, in the lobby (no
\* room line) and in a room that is not joined; in the room a, also of the
\* session's own user, a leave under another spelling, and every other tag
JoinLeaveFrames ==
  {line(room, <<tag, <<"b">>>>) : room \in {RoomA, <<>>, RoomZ}, tag \in {S_J, S_L}}
  \cup {line(RoomA, <<tag, <<"c">>>>) : tag \in {S_J, S_L}}
  \cup {line(RoomA, <<S_L, <<"#", "B", " ">>>>)}
  \cup {line(RoomA, <<tag, <<"b">>>>) : tag \in {S_j, S_join, S_l, S_leave}}

\* the roominfo responses: of a joined room, of a room that is not joined,
\* without a room, with a payload that is no JSON, without a payload
RoominfoFrames ==
  {line(<<>>, <<S_queryresponse, S_roominfo, <<doc>>>>) :
     doc \in {"{a:users}", "{z:users}", "{users}", "{"}}
  \cup {line(<<>>, <<S_queryresponse, S_roominfo>>)}

MemberFrames ==
  JoinLeaveFrames \cup RoominfoFrames

MemberNext ==
  \E raw \in MemberFrames : handleMessage(raw)

MemberSpec ==
  Joined /\ [][MemberNext]_vars

\* the chat frames, by their parts: the first field, the tag, the sender
\* field and the fields after it; every tag in every room with one sender
\* and one body, and in the room a every sender with every body
ChatParts ==
  {[first |-> first, tag |-> tag, sender |-> <<"b">>, body |-> <<<<"h">>>>] :
     first \in {RoomA, <<>>, RoomZ}, tag \in {S_c, S_chat, S_ct}}
  \cup {[first |-> first, tag |-> S_c, sender |-> <<" ", "#", "B">>, body |-> <<>>] :
          first \in {<<>>, RoomZ}}
  \cup {[first |-> RoomA, tag |-> S_c, sender |-> sender, body |-> body] :
          sender \in {<<"b">>, <<" ", "#", "B">>, <<" ">>},
          body \in {<<>>, <<<<"h">>>>, <<<<"h">>, <<"\n", "i", "\n">>>>}}

\* the raw text of a chat frame; a c: frame carries the time 5
ChatFrame(f) ==
  line(f.first, <<f.tag>> \o (IF f.tag = S_ct THEN <<<<"5">>>> ELSE <<>>)
                  \o <<f.sender>> \o f.body)

\* the chat frames, and two that end before the sender field
ChatFrames ==
  {ChatFrame(f) : f \in ChatParts}
  \cup {line(<<>>, <<S_c>>), line(RoomA, <<S_ct, <<"5">>>>)}

ChatNext ==
  \E raw \in ChatFrames : handleMessage(raw)

\* a joined session that receives chat frames
ChatSpec ==
  Joined /\ [][ChatNext]_vars

\* a session with the rooms a and lobby joined, before any raw text
Tracked ==
  /\ Joined
  /\ rooms = <<Room(<<"a">>), Room(S_lobby)>>

\* the dictionaries given to Room.updateAuth: one rank or two, a rank with
\* an empty list
AuthUpdates ==
  { [key \in {"+"} |-> {<<"b">>}],
    [key \in {"+"} |-> {<<"c">>}],
    [key \in {"*"} |-> {<<"b">>}],
    [key \in {"*"} |-> {}],
    [key \in {"+", "*"} |-> IF key = "+" THEN {<<"b">>} ELSE {<<"c">>}] }

\* the chat frames whose sender has a rank, by their parts
RankedParts ==
  {[first |-> first, tag |-> S_c, sender |-> <<rank, "b">>, body |-> <<<<"h">>>>] :
     first \in {RoomA, <<>>}, rank \in {"+", "*"}}

\* those frames, and the roominfo response with the auth of the room a
AuthFrames ==
  {ChatFrame(f) : f \in RankedParts}
  \cup {line(<<>>, <<S_queryresponse, S_roominfo, <<"{a:auth}">>>>)}

AuthNext ==
  \/ \E r \in 1..Len(rooms) : \E authDict \in AuthUpdates : roomUpdateAuth(r, authDict)
  \/ \E raw \in AuthFrames : handleMessage(raw)

\* a joined session whose rooms' auth is merged by the program, by ranked
\* chat and by roominfo responses
AuthSpec ==
  Tracked /\ [][AuthNext]_vars

\* the dictionaries that build the auth the rank queries are made on: a
\* low and a high rank, and a key that is no rank of the scale
RankUpdates ==
  { [key \in {"+"} |-> {<<"v">>}],
    [key \in {"#"} |-> {<<"o">>, <<"b">>}],
    [key \in {"x"} |-> {<<"z">>}] }

\* the ranks asked for: every rank of the scale, and one that is not on it
QueryRanks ==
  Range(ranksInOrder) \cup {"x"}

RankNext ==
  \/ \E r \in 1..Len(rooms) : \E authDict \in RankUpdates : roomUpdateAuth(r, authDict)
  \/ \E r \in 1..Len(rooms) : \E rank \in QueryRanks : roomUsersWithRankGEQ(r, rank)

\* a joined session whose program merges auth and asks for the users of a
\* rank and above
RankSpec ==
  Tracked /\ [][RankNext]_vars

\* the dictionaries given to Room.updateAuth before canUseHTML is asked:
\* the session's user under a rank below * and under *, another user under
\* a rank above * and under the rank just below *
HtmlUpdates ==
  { [key \in {"%"} |-> {<<"c">>}],
    [key \in {"*"} |-> {<<"c">>}],
    [key \in {"#"} |-> {<<"b">>}],
    [key \in {"U+2605"} |-> {<<"b">>}] }

\* the User objects asked: the session's own, one of another ID, one whose
\* name is not its ID, and one that no room has
HtmlUsers ==
  {This, User(<<"b">>), User(<<"B", " ">>), User(<<"v">>)}

\* the room arguments: None and every Room object
HtmlRooms ==
  {None} \cup {<<r>> : r \in 1..Len(rooms)}

HtmlNext ==
  \/ \E r \in 1..Len(rooms) : \E authDict \in HtmlUpdates : roomUpdateAuth(r, authDict)
  \/ \E user \in HtmlUsers : \E room \in HtmlRooms : canUseHTML_(user, room)

\* a joined session whose program merges auth and asks whether a user can
\* use HTML
HtmlSpec ==
  Tracked /\ [][HtmlNext]_vars

\* the raw texts the program makes Message objects of: joins of another
\* user and of the session's own user in the room a and a leave of the
\* other, a chat line of the session's user under * and one of the other
\* user in the room a, private messages of the other user and of a user that
\* is in no room, and a frame with neither room nor sender
RespondFrames ==
  { line(RoomA, <<S_J, <<"b">>>>),
    line(RoomA, <<S_J, <<"c">>>>),
    line(RoomA, <<S_L, <<"b">>>>),
    line(RoomA, <<S_c, <<"*", "c">>, <<"h">>>>),
    line(RoomA, <<S_c, <<" ", "b">>, <<"h">>>>),
    line(<<>>, <<S_pm, <<" ", "b">>, <<" ", "c">>, <<"h">>>>),
    line(<<>>, <<S_pm, <<" ", "v">>, <<" ", "c">>, <<"h">>>>),
    line(<<>>, <<S_init, S_chat>>) }

\* the html given to respondHTML
Htmls ==
  {<<"<", "b", ">">>, <<"h", "\n">>}

RespondNext ==
  \/ \E raw \in RespondFrames : newMessage(raw)
  \/ \E html \in Htmls : respondHTML_(html)
  \/ tick(Window)
  \/ wake("app")
  \/ sent("app")

\* a joined session whose program makes Message objects of raw texts and
\* responds to them with HTML
RespondSpec ==
  Joined /\ [][RespondNext]_vars

\* the pm frames, by their parts: the first field, the sender field, and the
\* fields after it (the recipient, then the body); a known user, an unknown
\* one under a display name, the session's own user and an empty sender
\* field, with no field after the sender, a recipient alone, and bodies of
\* one field and of two with newlines around
PmParts ==
  [first : {<<>>, RoomA},
   sender : {<<"b">>, <<"+", "V", " ">>, <<"c">>, <<>>},
   rest : { <<>>, << <<"r">> >>, << <<"r">>, <<"h">> >>,
            << <<"r">>, <<"h">>, <<"\n", "i", "\n">> >> }]

\* the raw text of a pm frame
PmFrame(f) ==
  line(f.first, <<S_pm, f.sender>> \o f.rest)

PmFrames ==
  {PmFrame(f) : f \in PmParts}

PmNext ==
  \/ \E raw \in PmFrames : newMessage(raw)
  \/ handleMessage(line(RoomA, <<S_J, <<"b">>>>))

\* a joined session whose program decodes private messages, and that
\* receives a join that makes one of their senders known
PmSpec ==
  Joined /\ [][PmNext]_vars

\* the tags of the synonym table, by the type they stand for
ChatTags == {S_ct, S_c, S_chat}

JoinTags == {S_J, S_j, S_join}

LeaveTags == {S_L, S_l, S_leave}

\* tags that are in no table: other cases of listed tags, init, a tag of no
\* type, and the empty tag
OtherTags ==
  { <<"C">>, <<"C", "h", "a", "t">>, <<"J", "O", "I", "N">>,
    <<"L", "e", "a", "v", "e">>, S_init, <<"x">>, <<>> }

\* the frames of every tag, by their parts: in the room a and in a room
\* that is not joined, of a user with and without a rank before the name
TagParts ==
  [first : {RoomA, RoomZ},
   tag : ChatTags \cup JoinTags \cup LeaveTags \cup OtherTags,
   sender : {<<"b">>, <<"+", "b">>}]

\* the raw text of such a frame, with the body h; a c: frame carries the
\* time 5
TagFrame(f) ==
  line(f.first, <<f.tag>> \o (IF f.tag = S_ct THEN <<<<"5">>>> ELSE <<>>)
                  \o <<f.sender, <<"h">>>>)

TagFrames ==
  [f \in TagParts |-> TagFrame(f)]

TagNext ==
  \E f \in TagParts : newMessage(TagFrames[f])

\* a session with the rooms a and lobby joined, whose program decodes
\* frames of every tag
TagSpec ==
  Tracked /\ [][TagNext]_vars

\* the roominfo response that carries the document doc
QueryFrame(doc) ==
  line(<<>>, <<S_queryresponse, S_roominfo, <<doc>>>>)

\* the documents of the query specification: users and auth of the room a,
\* users alone and auth with users of a room z that is never joined, and
\* users without a room ID
QueryDocs ==
  {"{a:users}", "{a:auth}", "{z:users}", "{z:all}", "{users}"}

QueryNext ==
  \/ \E doc \in QueryDocs : newMessage(QueryFrame(doc))
  \/ \E tag \in {S_J, S_L} : newMessage(line(RoomA, <<tag, <<"b">>>>))

\* a joined session whose program decodes roominfo responses, and a join
\* and a leave of a user that the payloads list
QuerySpec ==
  Joined /\ [][QueryNext]_vars

\* the frames that refer to users, by their parts: a chat line, a join and
\* a leave in the room a, and a pm, of a user under its ID and of another
\* under a display name
KnownParts ==
  [tag : {S_c, S_J, S_L, S_pm}, sender : {<<"b">>, <<" ", "V", "!">>}]

\* the raw text of such a frame: the body h for a chat line, a recipient
\* and the body h for a pm
KnownFrame(f) ==
  IF f.tag = S_pm THEN line(<<>>, <<f.tag, f.sender, <<"c">>, <<"h">>>>)
  ELSE IF f.tag = S_c THEN line(RoomA, <<f.tag, f.sender, <<"h">>>>)
  ELSE line(RoomA, <<f.tag, f.sender>>)

KnownNext ==
  \/ \E f \in KnownParts : newMessage(KnownFrame(f))
  \/ \E doc \in {"{a:users}", "{z:users}"} : newMessage(QueryFrame(doc))

\* a joined session whose program decodes frames that refer to users
KnownSpec ==
  Joined /\ [][KnownNext]_vars

\* the sender fields of the chat lines that bear on a room's auth: a name
\* alone, names after a rank (the lowest, the highest, one that is no ASCII
\* character), after whitespace and a rank, after a symbol that is no rank,
\* and after a symbol that is no rank
PrefixSenders ==
  { <<"b">>, <<"+", "b">>, <<"~", "C", "!">>, <<"U+2605", "b">>,
    <<" ", "#", "B", " ">>, <<"!", "b">> }

\* the chat lines with those senders, by their parts: in the room a and in
\* the lobby
PrefixParts ==
  [first : {RoomA, <<>>}, tag : {S_c}, sender : PrefixSenders,
   body : {<<<<"h">>>>}]

PrefixFrames ==
  [f \in PrefixParts |-> ChatFrame(f)]

PrefixNext ==
  \E f \in PrefixParts : newMessage(PrefixFrames[f])

\* a session with the rooms a and lobby joined, whose program decodes chat
\* lines of senders with and without a rank
PrefixSpec ==
  Tracked /\ [][PrefixNext]_vars

\* one or two frames of every type, by the type: chat lines in the room a
\* and in a room that is not joined, a pm, an init frame, a challstr, a frame
\* of a tag that is no type, joins and leaves in the room a and a join in a
\* room that is not joined, and roominfo responses of the room a and of a
\* room that is not joined
EffectFrames ==
  [type \in {"chat", "pm", "init", "challstr", "unrecognized", "join", "leave",
             "roominfo"} |->
     CASE type = "chat" -> {line(RoomA, <<S_c, <<"b">>, <<"h">>>>),
                            line(RoomZ, <<S_c, <<"v">>, <<"h">>>>)}
       [] type = "pm" -> {line(<<>>, <<S_pm, <<"v">>, <<"c">>, <<"h">>>>)}
       [] type = "init" -> {line(RoomA, <<S_init, S_chat>>)}
       [] type = "challstr" -> {line(<<>>, <<S_challstr, <<"4">>, <<"x">>>>)}
       [] type = "unrecognized" -> {line(RoomA, <<<<"x">>, <<"b">>>>)}
       [] type = "join" -> {line(RoomA, <<S_J, <<"b">>>>), line(RoomZ, <<S_J, <<"b">>>>)}
       [] type = "leave" -> {line(RoomA, <<S_L, <<"b">>>>)}
       [] type = "roominfo" -> {QueryFrame("{a:users}"), QueryFrame("{z:all}")}]

EffectNext ==
  \/ waitForLogin
  \/ newRoom(<<"a">>)
  \/ \E r \in 1..Len(rooms) : join_(r)
  \/ \E type \in DOMAIN EffectFrames : \E raw \in EffectFrames[type] : newMessage(raw)
  \/ tick(Window)
  \/ wake("app")
  \/ sent("app")

\* a session from its construction on, whose program makes and joins rooms
\* and decodes frames of every type
EffectSpec ==
  Init /\ [][EffectNext]_vars

\* the frames of a text that carries more than one: joins and leaves of two
\* users
BatchParts ==
  [tag : {S_J, S_L}, name : {<<"b">>, <<"d">>}]

\* the raw texts of two frames, the second on a line of its own, after the
\* line of the room a; the first frame alone, after the line of the room a
\* or without a room line
BatchFrames ==
  [f \in [one : BatchParts, two : BatchParts] |->
     line(RoomA, <<f.one.tag, f.one.name>>)
       \o <<"\n">> \o line(<<>>, <<f.two.tag, f.two.name>>)]

BatchNext ==
  \/ \E f \in DOMAIN BatchFrames : newMessage(BatchFrames[f])
  \/ \E first \in {RoomA, <<>>} : \E one \in BatchParts :
       newMessage(line(first, <<one.tag, one.name>>))

\* a session with the rooms a and lobby joined, whose program decodes raw
\* texts of one frame and of two frames
BatchSpec ==
  Tracked /\ [][BatchNext]_vars

\* the User objects the program hands to userJoinedRoom and userLeftRoom: a
\* new object of the user b, another of the same ID under a display name, a
\* new object with the ID of the session's own user, and the session's own
\* User object
IndexUsers ==
  {User(<<"b">>), User(<<"#", "B", " ">>), User(Username), This}

\* the join and leave frames of the user b and of the session's own user,
\* in the room a and in the lobby
IndexParts ==
  [first : {RoomA, <<>>}, tag : {S_J, S_L}, name : {<<"b">>, Username}]

IndexFrames ==
  [f \in IndexParts |-> line(f.first, <<f.tag, f.name>>)]

IndexNext ==
  \/ \E f \in IndexParts : newMessage(IndexFrames[f])
  \/ newMessage(QueryFrame("{a:users}"))
  \/ \E user \in IndexUsers : \E r \in 1..Len(rooms) : userJoinedRoom_(user, r)
  \/ \E user \in IndexUsers : \E r \in 1..Len(rooms) : userLeftRoom_(user, r)

\* a session with the rooms a and lobby joined, whose program decodes join
\* and leave frames and roominfo responses and calls userJoinedRoom and
\* userLeftRoom itself
IndexSpec ==
  Tracked /\ [][IndexNext]_vars

\* the longest text given to toID
MaxLen == 3

\* the characters of those texts: a lower-case letter, an upper-case
\* letter, a digit, a space, and a letter that is not ASCII, written as its
\* code point
Alphabet ==
  {"a", "B", "7", " ", "U+00E9"}

\* the texts given to toID, the empty one among them
Texts ==
  UNION {[1..n -> Alphabet] : n \in 0..MaxLen}

TextNext ==
  \E string \in Texts : toID_(string)

\* a program that calls toID
TextSpec ==
  Init /\ [][TextNext]_vars

\* the names the program looks rooms and users up by: IDs, and display
\* names that are no IDs
LookupNames ==
  {<<"a">>, <<"A", " ">>, S_lobby, <<"z">>, <<>>, <<"b">>, <<"#", "B", " ">>, <<"C">>}

\* the frames that make users known: a join and a leave of one user, a join
\* of the session's own user
LookupFrames ==
  {line(RoomA, <<S_J, <<"b">>>>), line(RoomA, <<S_L, <<"b">>>>),
   line(RoomA, <<S_J, <<"c">>>>)}

LookupNext ==
  \/ \E raw \in LookupFrames : handleMessage(raw)
  \/ \E name \in LookupNames : getRoom_(name)
  \/ \E name \in LookupNames : getUser_(name)

\* a joined session whose program looks up rooms and users between the
\* frames it receives
LookupSpec ==
  Joined /\ [][LookupNext]_vars

\* ----------------------------------------------------- membership properties

RoomLines == {RoomA, <<>>, RoomZ}

Names == {<<"b">>, <<"#", "B", " ">>, <<"c">>}

\* the room ID a first field names
roomIDOf(first) ==
  LET roomid == strip(strip(first, {">"}), {"\n"})
  IN  toID(IF roomid = <<>> THEN S_lobby ELSE roomid)

\* the membership set of the user with this name, None without an entry
roomsOf(users, name) ==
  getUserRooms(users, User(name))

\* C1: when the Message decoded last is a join of user U in a tracked room R
\* and the next raw text is a leave frame (L, l or leave) of U in R, then
\* after it is decoded U still has an entry in userList, U is still found by
\* getUser, and R's ID is not in U's set.
C1_JoinThenLeave ==
  [][\A first \in RoomLines : \A tag \in LeaveTags : \A name \in Names :
       ( /\ message # None
         /\ message[1].type = <<S_join>>
         /\ message[1].room # None
         /\ rooms[message[1].room[1]].id = roomIDOf(first)
         /\ message[1].sender[1].id = toID(name)
         /\ handleMessage(line(first, <<tag, name>>)) )
       => /\ message' # None
          /\ roomsOf(userList', name) # None
          /\ roomIDOf(first) \notin roomsOf(userList', name)[1]
          /\ getUser(userList', toID(name)) # None]_vars

\* C1 witness: a join and then a leave of the same user in the same tracked
\* room have been decoded, and the user's entry is there without the room
C1_Witness ==
  /\ previous # None
  /\ previous[1].type = <<S_join>>
  /\ previous[1].room # None
  /\ message # None
  /\ message[1].type = <<S_leave>>
  /\ message[1].room = previous[1].room
  /\ previous[1].id = <<message[1].sender[1].id>>
  /\ getUserRooms(userList, message[1].sender[1]) # None
  /\ rooms[message[1].room[1]].id \notin getUserRooms(userList, message[1].sender[1])[1]

\* C2: decoding a leave frame of user U for room R, when userList has no
\* entry for U or U's set does not hold R's ID, raises nothing and leaves
\* userList as it was.
C2_LeaveUnrecorded ==
  [][\A first \in RoomLines : \A tag \in LeaveTags : \A name \in Names :
       ( /\ \/ roomsOf(userList, name) = None
            \/ roomIDOf(first) \notin roomsOf(userList, name)[1]
         /\ handleMessage(line(first, <<tag, name>>)) )
       => /\ message' # None
          /\ userList' = userList]_vars

\* C3: decoding a roominfo response whose payload names a tracked room R and
\* lists users makes every listed name a user that getUser finds and whose
\* set holds R's ID, and no user that had an entry loses a room.
C3_RoominfoUsers ==
  [][\A doc \in DOMAIN JsonDocs :
       LET roomData == JsonDocs[doc]
       IN  ( /\ "id" \in DOMAIN roomData
             /\ "users" \in DOMAIN roomData
             /\ getRoom(rooms, order, roomData.id) # None
             /\ handleMessage(line(<<>>, <<S_queryresponse, S_roominfo, <<doc>>>>)) )
           => /\ message' # None
              /\ \A i \in DOMAIN roomData.users :
                    /\ getUser(userList', toID(roomData.users[i])) # None
                    /\ roomsOf(userList', roomData.users[i]) # None
                    /\ toID(roomData.id) \in roomsOf(userList', roomData.users[i])[1]
              /\ \A k \in DOMAIN userList :
                    /\ getUserRooms(userList', userList[k].user) # None
                    /\ getUserRooms(userList, userList[k].user)[1]
                         \subseteq getUserRooms(userList', userList[k].user)[1]]_vars

\* C3 witness: the first text decoded was a roominfo response of the joined
\* room a, and the users it lists are known and in the room
C3_Witness ==
  /\ previous = None
  /\ message # None
  /\ message[1].type = <<S_queryresponse>>
  /\ \A name \in Names :
        /\ getUser(userList, toID(name)) # None
        /\ roomsOf(userList, name) = << {<<"a">>} >>

\* ----------------------------------------------------------- chat properties

\* body is text without the newline characters at its two ends
Trimmed(text, body) ==
  /\ body = <<>> \/ (body[1] # "\n" /\ body[Len(body)] # "\n")
  /\ \E i \in 1..(Len(text) + 1) : \E j \in 0..Len(text) :
        /\ SubSeq(text, i, j) = body
        /\ \A k \in 1..Len(text) : (k < i \/ k > j) => text[k] = "\n"

\* what C4 says of every part of the event but its body
ChatEvent(f, m) ==
  /\ m # None
  /\ m[1].type = <<S_chat>>
  /\ m[1].room # None
  /\ m[1].room[1] \in roomList
  /\ rooms[m[1].room[1]].id = roomIDOf(f.first)
  /\ m[1].time = IF f.tag = S_ct THEN <<<<"5">>>> ELSE None
  /\ m[1].senderName = <<f.sender>>
  /\ m[1].sender # None
  /\ m[1].sender[1].id = toID(f.sender)
  /\ m[1].challstr = None

\* a chat frame with a sender field that is not blank, in a room of roomList
ChatCase(f) ==
  /\ strip(f.sender, Whitespace) # <<>>
  /\ \E r \in roomList : rooms[r].id = roomIDOf(f.first)

PmEvent(f, m) ==
  /\ m # None
  /\ m[1].type = <<S_pm>>
  /\ m[1].room = None
  /\ m[1].senderName = <<f.sender>>
  /\ m[1].sender # None
  /\ m[1].sender[1].id = toID(f.sender)
  /\ m[1].time = None
  /\ m[1].challstr = None

\* C21, as amended: decoding a pm frame yields an event of type pm with no
\* room, no time and no challstr, the field 2 as sender name and its normal
\* form as sender ID, and as body the fields from index 4 on rejoined with
\* pipes (the recipient, field 3, is no part of it), without the newline
\* characters at the two ends of that text; rooms, roomList and userList are
\* as they were.
C21_PmFields ==
  [][\A f \in PmParts :
       (result'.args = <<PmFrame(f)>> /\ result'.call = "Message"
          /\ newMessage(PmFrame(f)))
       => /\ result'.raised = ""
          /\ PmEvent(f, result'.returned)
          /\ result'.returned[1].body # None
          /\ Trimmed(join(from(f.rest, 1)), result'.returned[1].body[1])
          /\ UNCHANGED registries]_vars

\* C21, as stated: the body is the fields from index 4 on rejoined with
\* pipes, as they are.
C21_PmBodyVerbatim ==
  [][\A f \in PmParts :
       (result'.args = <<PmFrame(f)>> /\ result'.call = "Message"
          /\ newMessage(PmFrame(f)))
       => /\ result'.raised = ""
          /\ PmEvent(f, result'.returned)
          /\ result'.returned[1].body = <<join(from(f.rest, 1))>>
          /\ UNCHANGED registries]_vars

\* C21 witness: a pm of a user under a display name has been decoded, whose
\* body holds a pipe and has lost its last newline, and the user has no
\* entry in userList
C21_Witness ==
  /\ result.call = "Message"
  /\ result.returned # None
  /\ result.returned[1].type = <<S_pm>>
  /\ result.returned[1].senderName = << <<"+", "V", " ">> >>
  /\ result.returned[1].sender[1].id = <<"v">>
  /\ result.returned[1].body = << <<"h", "|", "\n", "i">> >>
  /\ getUser(userList, <<"v">>) = None

\* ------------------------------------------------------------ tag properties

\* the type a tag of the synonym table stands for
typeOf(tag) ==
  IF tag \in ChatTags THEN S_chat ELSE IF tag \in JoinTags THEN S_join ELSE S_leave

\* the tags that stand for the same type as tag
synonyms(tag) ==
  IF tag \in ChatTags THEN ChatTags ELSE IF tag \in JoinTags THEN JoinTags ELSE LeaveTags

\* what decoding comes to, but for the time of the event
timeless(decoded) ==
  IF decoded.message = None THEN decoded
  ELSE [decoded EXCEPT !.message = <<[decoded.message[1] EXCEPT !.time = None]>>]

\* C22: a frame with a tag of the synonym table (c:, c, chat; J, j, join;
\* L, l, leave) is decoded as the same frame under every other tag of its
\* type is (but for the time that a c: frame carries), the event it yields
\* has that type, and in a room of roomList it does yield an event; a frame
\* with another tag, such as C, Chat, JOIN, Leave, init or the empty tag,
\* raises nothing, yields an event with the tag as its type and leaves
\* rooms (hence every auth), roomList and userList as they were.
C22_TagSynonyms ==
  [][\A f \in TagParts :
       (result'.args = <<TagFrames[f]>> /\ result'.call = "Message"
          /\ newMessage(TagFrames[f])) =>
         IF f.tag \in OtherTags
         THEN /\ result'.raised = ""
              /\ result'.returned # None
              /\ result'.returned[1].type = <<f.tag>>
              /\ UNCHANGED registries
         ELSE /\ result'.returned # None => result'.returned[1].type = <<typeOf(f.tag)>>
              /\ f.first = RoomA => result'.returned # None
              /\ \A tag \in synonyms(f.tag) :
                   timeless(Message(rooms, order, userList,
                                    TagFrames[[f EXCEPT !.tag = tag]]))
                     = timeless(Message(rooms, order, userList, TagFrames[f]))
    ]_vars

\* C22 witness: the frame with the tag JOIN of a user in the room a has been
\* decoded, and the user, who joined the room before, is still recorded in
\* it alone
C22_Witness ==
  /\ result.call = "Message"
  /\ result.args = <<line(RoomA, <<<<"J", "O", "I", "N">>, <<"b">>, <<"h">>>>)>>
  /\ result.returned # None
  /\ result.returned[1].type = << <<"J", "O", "I", "N">> >>
  /\ getUserRooms(userList, User(<<"b">>)) = << {<<"a">>} >>

\* C29: decoding a chat line (of a sender with or without a rank), a join
\* frame or a leave frame of a room that is not in roomList raises nothing
\* and yields an event without a room; no Room object is made, and rooms,
\* roomList and userList are as they were.
C29_RoomMiss ==
  [][\A f \in TagParts :
       (result'.args = <<TagFrames[f]>> /\ result'.call = "Message"
          /\ f.first = RoomZ /\ f.tag \notin OtherTags
          /\ newMessage(TagFrames[f])) =>
         /\ result'.raised = ""
         /\ result'.returned # None
         /\ result'.returned[1].room = None
         /\ Len(rooms') = Len(rooms)
         /\ UNCHANGED registries
    ]_vars

\* -------------------------------------------------------- dispatch properties

\* the fields of a raw text after its tag, rejoined
payloadOf(raw) ==
  join(from(split(raw), 2))

\* the raw text is a challstr frame
IsChallstr(raw) ==
  has(split(raw), 1) /\ at(split(raw), 1) = S_challstr

\* C5: when a handleMessage call has decoded its raw text and has ended, it
\* has returned the Message decoded from that text and raised nothing, and
\* a chat logger, when there is one, got that Message once.
C5_ReturnsDecoded ==
  (message # None /\ pc["reader"].at = "idle")
  => /\ returned = message
     /\ raised = ""
     /\ chatlogger => logged = message

\* C6: when waitForLogin returns to connect(), isLoggedIn is true.
C6_ReturnsLoggedIn ==
  [][(caller = "connect" /\ caller' = "ready") => isLoggedIn']_vars

\* C7: decoding a challstr frame, whatever its payload, gives an event whose
\* challstr is the fields after the tag rejoined with pipes, and login is
\* called once, with that payload; when the login call ends isLoggedIn is
\* true; a raw text of another type calls no login.
C7_ChallstrLogin ==
  [][/\ \A raw \in SessionFrames :
          handleMessage(raw) =>
            IF IsChallstr(raw)
            THEN /\ message' # None
                 /\ message'[1].challstr = <<payloadOf(raw)>>
                 /\ logins' = <<payloadOf(raw)>>
                 /\ pc'["reader"].op = "login"
            ELSE /\ logins' = <<>>
                 /\ pc'["reader"] = Idle
     /\ (pc["reader"].op = "login" /\ pc'["reader"].op # "login") => isLoggedIn'
    ]_vars

\* C8: decoding a raw text, whatever it is, raises nothing and yields an
\* event.
C8_DecodesAll ==
  [][\A raw \in SessionFrames :
       handleMessage(raw) => (message' # None /\ raised' # "IndexError")]_vars

\* ------------------------------------------------------------ send properties

\* C9: when the program's sends follow one another, a transmission comes at
\* least Window after the one before it; a send issued when Window or more
\* has passed since the last transmission goes to the transport without a
\* sleep; and every send that was issued transmits.
C9_Throttle ==
  /\ [](transmit # None => transmit[1].gap >= Window)
  /\ [][/\ \A r \in 1..Len(rooms) :
             ((say(r, Greeting) \/ leave(r) \/ join_(r)) /\ elapsed >= Window)
             => (pc'["app"].at = "wsend" /\ ~pc'["app"].slept)
        /\ (sent("app") /\ ~pc["app"].slept) => transmit'[1].gap >= Window
        /\ sent("app") => elapsed' = 0
       ]_vars
  /\ \A op \in {"say", "join", "joined", "leave"} :
        (pc["app"].at # "idle" /\ pc["app"].op = op)
          ~> (pc["app"].at = "idle" \/ pc["app"].op # op)

\* C9 witness: a send that had to sleep has transmitted, Window after the
\* transmission before it
C9_Witness ==
  /\ transmit # None
  /\ transmit[1].slept
  /\ transmit[1].gap = Window
  /\ pc["app"].at = "idle"

\* C17: Room.join hands '|/join <id>' to send and changes nothing else
\* before that is transmitted; once it is transmitted the room is added to
\* roomList and '<id>|/cmd roominfo <id>' is handed to send, which sleeps out
\* the window; once that is transmitted join returns, with the room in
\* roomList and no room's auth or the userList touched. Both transmissions
\* come at least Window after the one before.
C17_JoinOrder ==
  [][\A r \in 1..Len(rooms) :
       /\ join_(r) =>
            /\ pc'["app"].op = "join"
            /\ pc'["app"].text = S_joinCmd \o rooms[r].id
            /\ UNCHANGED <<registries, transmit>>
       /\ (pc["app"].op = "join" /\ pc["app"].room = r /\ sent("app")) =>
            /\ transmit'[1].text = S_joinCmd \o rooms[r].id
            /\ transmit'[1].gap >= Window
            /\ roomList' = roomList \cup {r}
            /\ pc'["app"].at = "sleep"
            /\ pc'["app"].op = "joined"
            /\ pc'["app"].text = rooms[r].id \o <<"|">> \o S_roominfoCmd \o rooms[r].id
            /\ UNCHANGED <<rooms, userList>>
       /\ (pc["app"].op = "joined" /\ pc["app"].room = r /\ sent("app")) =>
            /\ transmit # None
            /\ transmit[1].text = S_joinCmd \o rooms[r].id
            /\ transmit'[1].text = rooms[r].id \o <<"|">> \o S_roominfoCmd \o rooms[r].id
            /\ transmit'[1].gap >= Window
            /\ transmit'[1].slept
            /\ r \in roomList'
            /\ pc'["app"] = Idle
            /\ UNCHANGED registries
    ]_vars

\* C17 witness: the join of room a has returned: its roominfo request was
\* the last transmission, the room is in roomList, and its auth is still
\* the one of its construction
C17_Witness ==
  /\ transmit # None
  /\ transmit[1].text = <<"a", "|", "/", "c", "m", "d", " ",
                          "r", "o", "o", "m", "i", "n", "f", "o", " ", "a">>
  /\ pc["app"].at = "idle"
  /\ 1 \in roomList
  /\ rooms[1].auth = Room(<<"a">>).auth

\* C18: Room.leave hands '<id>|/part' to send and changes nothing else; once
\* that is transmitted, at least Window after the transmission before,
\* leave returns with no further send, and rooms, roomList and userList are
\* as they were: getRoom answers for the room's ID as it did before, with a
\* room when the room was in roomList.
C18_LeaveKeepsRoom ==
  [][\A r \in 1..Len(rooms) :
       /\ leave(r) =>
            /\ pc'["app"].op = "leave"
            /\ pc'["app"].text = rooms[r].id \o <<"|">> \o S_part
            /\ UNCHANGED <<registries, transmit>>
       /\ (pc["app"].op = "leave" /\ pc["app"].room = r /\ sent("app")) =>
            /\ transmit'[1].text = rooms[r].id \o <<"|">> \o S_part
            /\ transmit'[1].gap >= Window
            /\ pc'["app"] = Idle
            /\ UNCHANGED registries
            /\ getRoom(rooms', order', rooms[r].id) = getRoom(rooms, order, rooms[r].id)
            /\ r \in roomList =>
                 /\ getRoom(rooms', order', rooms[r].id) # None
                 /\ rooms'[getRoom(rooms', order', rooms[r].id)[1]].id = rooms[r].id
    ]_vars

\* C18 witness: the leave of the joined room a has returned: '/part' was
\* the last transmission and the room is still in roomList
C18_Witness ==
  /\ transmit # None
  /\ transmit[1].text = <<"a", "|", "/", "p", "a", "r", "t">>
  /\ pc["app"].at = "idle"
  /\ 1 \in roomList
  /\ getRoom(rooms, order, <<"a">>) # None

\* C25: whichever tasks the sends come from, and however they interleave,
\* every transmission comes at least Window after the transmission before
\* it (and after the construction of the session, for the first).
C25_SharedLimiter ==
  [][\A t \in Tasks : sent(t) => transmit'[1].gap >= Window]_vars

\* C26: while the program's task waits out the window inside send, the task
\* reading the transport, when it is between two texts, can decode a text
\* that has arrived.
C26_InboundDuringWait ==
  (pc["app"].at = "sleep" /\ pc["reader"].at = "idle" /\ caller = "ready")
    => ENABLED handleMessage(line(<<>>, <<S_init, S_chat>>))

\* ------------------------------------------------------------ auth properties

\* the set a room's auth holds for a rank, empty without an entry
heldBy(auth, key) ==
  IF key \in DOMAIN auth THEN auth[key] ELSE {}

\* C10: updateAuth(authDict) makes the room's set of each rank of authDict
\* the union of the set it had (none: the empty set) and the identifiers
\* given, creates no other entry and leaves the other ranks' sets and the
\* other rooms as they were; no step takes an identifier out of a rank's set
\* or an entry out of a room's auth; and after a chat frame whose sender has a
\* rank, in a tracked room, the sender's ID is under that rank, next to the
\* ranks it was under before.
C10_AuthUnion ==
  [][/\ \A r \in DOMAIN rooms : \A authDict \in AuthUpdates :
          roomUpdateAuth(r, authDict) =>
            /\ DOMAIN rooms'[r].auth = (DOMAIN rooms[r].auth) \cup (DOMAIN authDict)
            /\ \A key \in DOMAIN authDict :
                  rooms'[r].auth[key] = heldBy(rooms[r].auth, key) \cup authDict[key]
            /\ \A key \in (DOMAIN rooms[r].auth) \ (DOMAIN authDict) :
                  rooms'[r].auth[key] = rooms[r].auth[key]
            /\ \A o \in (DOMAIN rooms) \ {r} : rooms'[o] = rooms[o]
     /\ \A r \in DOMAIN rooms : \A key \in DOMAIN rooms[r].auth :
          /\ r \in DOMAIN rooms'
          /\ key \in DOMAIN rooms'[r].auth
          /\ rooms[r].auth[key] \subseteq rooms'[r].auth[key]
     /\ \A f \in RankedParts :
          handleMessage(ChatFrame(f)) =>
            /\ message' # None
            /\ message'[1].room # None
            /\ toID(Tail(f.sender))
                 \in heldBy(rooms'[message'[1].room[1]].auth, f.sender[1])
            /\ \A key \in Range(ranksInOrder) :
                  toID(Tail(f.sender)) \in heldBy(rooms[message'[1].room[1]].auth, key)
                  => toID(Tail(f.sender))
                       \in heldBy(rooms'[message'[1].room[1]].auth, key)
    ]_vars

\* C10 witness: two chat frames of one user in the room a, under one rank
\* and then under another, have been decoded, and the room's auth holds the
\* user under both ranks, next to what updateAuth and roominfo had put there
C10_Witness ==
  /\ previous # None
  /\ previous[1].type = <<S_chat>>
  /\ previous[1].id = << <<"b">> >>
  /\ message # None
  /\ message[1].type = <<S_chat>>
  /\ message[1].senderName = << <<"*", "b">> >>
  /\ message[1].room = previous[1].room
  /\ message[1].room # None
  /\ rooms[message[1].room[1]].auth =
       [key \in {"+", "*"} |->
          IF key = "+" THEN {<<"b">>} ELSE {<<"b">>, <<"c">>, <<"C">>}]

\* C11: from every auth mapping a room gets to, merging A and then B gives
\* the mapping that merging B and then A gives, and merging A twice gives
\* the mapping that merging A once gives.
C11_MergeCommutes ==
  \A r \in DOMAIN rooms : \A A \in AuthUpdates :
    /\ updateAuth(updateAuth(rooms[r].auth, A), A) = updateAuth(rooms[r].auth, A)
    /\ \A B \in AuthUpdates :
         updateAuth(updateAuth(rooms[r].auth, A), B)
           = updateAuth(updateAuth(rooms[r].auth, B), A)

\* C11 witness: the room a holds the result of two updateAuth calls that
\* gave different lists for one rank, and of nothing else
C11_Witness ==
  /\ message = None
  /\ rooms[1].auth = [key \in {"+"} |-> {<<"b">>, <<"c">>}]
  /\ rooms[2].auth = Room(S_lobby).auth

\* the place of a rank on the scale, counted from 1
placeOf(rank) ==
  CHOOSE i \in DOMAIN ranksInOrder : ranksInOrder[i] = rank

\* C12: for a rank of the scale, usersWithRankGEQ returns the union of the
\* room's sets of the ranks at that place of the scale and above, a rank
\* without an entry giving nothing, so that the answer for a higher rank is
\* within the answer for a lower one; for a rank that is not on the scale
\* the call raises and returns nothing.
C12_RankAndAbove ==
  [][\A r \in DOMAIN rooms : \A rank \in QueryRanks :
       (result'.args = <<r, rank>> /\ roomUsersWithRankGEQ(r, rank)) =>
         IF rank \in Range(ranksInOrder)
         THEN /\ result'.raised = ""
              /\ result'.returned =
                   <<UNION {heldBy(rooms[r].auth, ranksInOrder[i]) :
                              i \in placeOf(rank)..Len(ranksInOrder)}>>
              /\ \A below \in Range(ranksInOrder) :
                   placeOf(below) <= placeOf(rank)
                   => result'.returned[1]
                        \subseteq usersWithRankGEQ(rooms[r].auth, below).returned[1]
         ELSE /\ result'.raised # ""
              /\ result'.returned = None]_vars

\* C12 witness: the room a holds users under + and # and under a key off
\* the scale, and the call for a rank between the two has returned those of #
C12_Witness ==
  /\ DOMAIN rooms[1].auth = {"+", "#", "x"}
  /\ result = returns("usersWithRankGEQ", <<1, "*">>, <<{<<"b">>, <<"o">>}>>)

\* the ranks that allow HTML: * and the ranks above it
HtmlRanks == {"*", "#", "&", "~"}

\* C19: user.canUseHTML(room) returns a boolean and raises nothing; it is
\* True exactly when room is not None and the user's ID is in the room's
\* auth under *, #, & or ~. In particular it is False for None, for a user
\* under no rank of the room, and for a user only under ranks below *.
C19_CanUseHTML ==
  [][\A user \in HtmlUsers : \A room \in HtmlRooms :
       (result'.args = <<user, room>> /\ result'.call = "canUseHTML"
          /\ canUseHTML_(user, room)) =>
         /\ result'.raised = ""
         /\ \E bool \in BOOLEAN : result'.returned = <<bool>>
         /\ result'.returned = <<TRUE>> <=>
              /\ room # None
              /\ \E key \in HtmlRanks : user.id \in heldBy(rooms[room[1]].auth, key)
    ]_vars

\* C19 witness: canUseHTML returned False for the session's user in a room
\* where it is only under %, while another user is under # there
C19_Witness ==
  /\ result.call = "canUseHTML"
  /\ result.args = <<This, <<1>>>>
  /\ result.returned = <<FALSE>>
  /\ heldBy(rooms[1].auth, "%") = {<<"c">>}
  /\ heldBy(rooms[1].auth, "#") = {<<"b">>}

\* the session's user holds * or a rank above it in the Room object r
ownRank(r) ==
  \E key \in HtmlRanks : This.id \in heldBy(rooms[r].auth, key)

\* the Room objects of roomList that the user and the session's user are
\* both recorded in
commonRooms(user) ==
  {r \in roomList :
     /\ getUserRooms(userList, user) # None
     /\ getUserRooms(userList, This) # None
     /\ rooms[r].id \in getUserRooms(userList, user)[1] \cap getUserRooms(userList, This)[1]}

\* C20: respondHTML(html) raises nothing, and: on a Message with a room
\* where the session's user holds * or above, it says
\* '/adduhtml <own ID>,<html>' in that room; on a Message with a sender and
\* no room, when a Room object that both are recorded in has the session's
\* user at * or above, it says '/pminfobox <sender ID>,<html>' in such a
\* room; in every other case it sends nothing.
C20_RespondHTML ==
  [][\A html \in Htmls :
       (result'.call = "respondHTML" /\ respondHTML_(html)) =>
         LET m == result.returned[1]
             through == IF m.sender = None THEN {}
                        ELSE {r \in commonRooms(m.sender[1]) : ownRank(r)}
         IN  /\ result'.raised = ""
             /\ IF m.room # None
                THEN IF ownRank(m.room[1])
                     THEN pc'["app"].text =
                            rooms[m.room[1]].id \o <<"|">> \o S_adduhtml
                              \o This.id \o <<",">> \o html
                     ELSE pc' = pc
                ELSE IF through # {}
                THEN \E r \in through :
                       pc'["app"].text =
                         rooms[r].id \o <<"|", "/","p","m","i","n","f","o","b","o","x"," ">>
                           \o m.sender[1].id \o <<",">> \o html
                ELSE pc' = pc
    ]_vars

\* C30: in every state, every member of every set of every room's auth is
\* its own normal form.
C30_AuthNormalized ==
  \A r \in 1..Len(rooms) : \A key \in DOMAIN rooms[r].auth :
    \A userid \in rooms[r].auth[key] : userid = toID(userid)

\* ---------------------------------------------------------- query properties

\* the document names no room of roomList: it has no ID, or getRoom finds
\* no room for its ID
namesNoRoom(doc) ==
  \/ "id" \notin DOMAIN JsonDocs[doc]
  \/ getRoom(rooms, order, JsonDocs[doc].id) = None

KnownIDs == {<<"b">>, <<"v">>, <<"c">>}

RankSymbols == {"+", "%", "U+2606", "@", "U+2605", "*", "#", "&", "~"}

\* C27: decoding a chat line in a room R of roomList, of a sender field
\* that, whitespace at its ends apart, begins with a symbol of the rank
\* scale, puts the normal form of what follows the symbol in R's auth for
\* that rank, hence among R.usersWithRankGEQ of that rank, with nothing
\* taken out of R's auth; a sender field that begins with anything else
\* leaves R's auth as it was; in both cases every other Room is as it was,
\* and so are roomList and userList.
C27_RankPrefix ==
  [][\A f \in PrefixParts :
       (result'.args = <<PrefixFrames[f]>> /\ result'.call = "Message"
          /\ getRoom(rooms, order, roomIDOf(f.first)) # None
          /\ newMessage(PrefixFrames[f])) =>
         LET R      == getRoom(rooms, order, roomIDOf(f.first))[1]
             userid == strip(f.sender, Whitespace)
         IN  /\ result'.raised = ""
             /\ result'.returned # None
             /\ result'.returned[1].room = <<R>>
             /\ IF userid[1] \in RankSymbols
                THEN /\ toID(Tail(userid)) \in heldBy(rooms'[R].auth, userid[1])
                     /\ toID(Tail(userid))
                          \in usersWithRankGEQ(rooms'[R].auth, userid[1]).returned[1]
                     /\ \A key \in DOMAIN rooms[R].auth :
                          rooms[R].auth[key] \subseteq heldBy(rooms'[R].auth, key)
                     /\ \A key \in DOMAIN rooms'[R].auth :
                          key # userid[1] => rooms'[R].auth[key] = heldBy(rooms[R].auth, key)
                ELSE rooms'[R] = rooms[R]
             /\ Len(rooms') = Len(rooms)
             /\ \A r \in 1..Len(rooms) : r # R => rooms'[r] = rooms[r]
             /\ UNCHANGED <<roomList, order, userList>>
    ]_vars

\* C27 witness: in the room a, a chat line of ' #B ' has been decoded after
\* one of '+b': b is under + and under # there, and the other Room object
\* has no auth
C27_Witness ==
  /\ result.call = "Message"
  /\ result.args = <<line(RoomA, <<S_c, <<" ", "#", "B", " ">>, <<"h">>>>)>>
  /\ Len(rooms) = 2
  /\ rooms[1].id = <<"a">>
  /\ heldBy(rooms[1].auth, "#") = {<<"b">>}
  /\ heldBy(rooms[1].auth, "+") = {<<"b">>}
  /\ DOMAIN rooms[2].auth = {}

\* ----------------------------------------------------------- effect properties

\* the step decodes a frame of one of the types
decodes(types) ==
  \E type \in types : \E raw \in EffectFrames[type] :
    result'.args = <<raw>> /\ result'.call = "Message" /\ newMessage(raw)

\* C28: decoding a chat, pm, init, challstr or unrecognized frame changes
\* neither roomList nor userList, and decoding a join or leave frame leaves
\* roomList as it was; roomList changes on no step but the one of Room.join
\* that follows the transmission of its join command (or the decoding of a
\* roominfo response), and userList on no step but the decoding of a join
\* frame, a leave frame or a roominfo response.
C28_FrameEffects ==
  [][/\ decodes({"chat", "pm", "init", "challstr", "unrecognized"})
          => UNCHANGED <<roomList, order, userList>>
     /\ decodes({"join", "leave"}) => UNCHANGED <<roomList, order>>
     /\ roomList' # roomList
          => \/ pc["app"].op = "join" /\ sent("app")
             \/ decodes({"roominfo"})
     /\ userList' # userList => decodes({"join", "leave", "roominfo"})
    ]_vars

\* C28 witness: a pm has been decoded on a session where Room.join has put a
\* room in roomList and a join frame and a leave frame have given a user an
\* entry in userList and emptied its set
C28_Witness ==
  /\ result.call = "Message"
  /\ result.args = <<line(<<>>, <<S_pm, <<"v">>, <<"c">>, <<"h">>>>)>>
  /\ result.returned # None
  /\ roomList # {}
  /\ transmit # None
  /\ getUserRooms(userList, User(<<"b">>)) = << {} >>
  /\ getUser(userList, <<"v">>) = None

\* ------------------------------------------------------ registry properties

\* C13: in every state the session gets to, roomList holds at most one Room
\* object of each ID.
C13_OneRoomPerID ==
  \A r1 \in roomList : \A r2 \in roomList :
    rooms[r1].id = rooms[r2].id => r1 = r2

\* C14: getRoom(n) returns a Room of roomList whose ID is toID(n), and None
\* when roomList has no Room of that ID; every name with the same normal
\* form gets the same Room.
C14_GetRoomNormalizes ==
  [][\A name \in LookupNames :
       (result'.args = <<name>> /\ result'.call = "getRoom" /\ getRoom_(name)) =>
         /\ result'.raised = ""
         /\ IF \E r \in roomList : rooms[r].id = toID(name)
            THEN /\ result'.returned # None
                 /\ result'.returned[1] \in roomList
                 /\ rooms[result'.returned[1]].id = toID(name)
            ELSE result'.returned = None
         /\ \A other \in LookupNames :
              toID(other) = toID(name) => getRoom(rooms, order, other) = result'.returned
    ]_vars

\* C14 witness: a Room of the ID a has been returned for a name that is not
\* an ID
C14_Witness ==
  /\ result.call = "getRoom"
  /\ result.returned # None
  /\ result.returned = getRoom(rooms, order, <<"A", " ">>)
  /\ result.returned[1] \in roomList
  /\ rooms[result.returned[1]].id = <<"a">>
  /\ message # None

\* the User objects that are known: the keys of userList and the session's own
knownUsers ==
  {userList[k].user : k \in DOMAIN userList} \cup {This}

\* C15: getUser(n) returns a known User whose ID is toID(n), and None only
\* when no known User has that ID.
C15_GetUserNormalizes ==
  [][\A name \in LookupNames :
       (result'.args = <<name>> /\ result'.call = "getUser" /\ getUser_(name)) =>
         IF \E u \in knownUsers : u.id = toID(name)
         THEN /\ result'.returned # None
              /\ result'.returned[1] \in knownUsers
              /\ result'.returned[1].id = toID(name)
         ELSE result'.returned = None]_vars

\* ---------------------------------------------------------- text properties

\* the places of the ASCII letters and digits in a text
keptIn(string) ==
  {i \in DOMAIN string :
     string[i] \in Range(LowerCase) \cup Range(UpperCase) \cup Range(Digits)}

\* C16: every call of toID, also on the empty text and on a text without an
\* ASCII letter or digit, raises nothing and returns the ASCII letters and
\* digits of the text in their order, each upper-case letter as its
\* lower-case letter, and toID of what it returns is what it returns.
C16_ToIDTotalIdempotent ==
  result.call = "toID" =>
    LET string == result.args[1]
        id     == result.returned
    IN  /\ result.raised = ""
        /\ Len(id) = Cardinality(keptIn(string))
        /\ \A i \in keptIn(string) :
              LET k == Cardinality({j \in keptIn(string) : j <= i})
              IN  /\ string[i] \in Range(UpperCase)
                       => \E n \in DOMAIN UpperCase :
                            UpperCase[n] = string[i] /\ id[k] = LowerCase[n]
                  /\ string[i] \notin Range(UpperCase) => id[k] = string[i]
        /\ toID(id) = id

\* C16 witness: toID has returned the ID of a text with an upper-case
\* letter, a space and a letter that is not ASCII in it
C16_Witness ==
  /\ result.call = "toID"
  /\ result.args = << <<"B", " ", "U+00E9">> >>
  /\ result.returned = <<"b">>

\* ------------------------------------------------------- batch properties

\* the membership set of the user with this name holds the ID of the room a
occupiesA(users, name) ==
  /\ roomsOf(users, name) # None
  /\ toID(<<"a">>) \in roomsOf(users, name)[1]

\* C31: decoding a raw text that is the line of the room a followed by two
\* join frames, each on its own line, raises nothing and leaves the user of
\* the first frame and the user of the second frame both recorded in the
\* room a.
C31_EveryFrameDecoded ==
  [][\A f \in DOMAIN BatchFrames :
       (result'.args = <<BatchFrames[f]>> /\ result'.call = "Message"
          /\ f.one.tag = S_J /\ f.two.tag = S_J
          /\ newMessage(BatchFrames[f])) =>
         /\ result'.raised = ""
         /\ occupiesA(userList', f.one.name)
         /\ occupiesA(userList', f.two.name)
    ]_vars

\* ------------------------------------------------------- index properties

\* C32: in every state, no two entries of userList (the membership index)
\* have keys with the same user ID.
C32_OneEntryPerID ==
  \A i, j \in DOMAIN userList :
    userList[i].user.id = userList[j].user.id => i = j

\* the user IDs that have an entry before or after the step
indexedIDs ==
  {userList[i].user.id : i \in DOMAIN userList}
    \cup {userList'[i].user.id : i \in DOMAIN userList'}

\* the rooms the index records for the user of this ID, none without an entry
recorded(users, id) ==
  IF roomsOf(users, id) = None THEN {} ELSE roomsOf(users, id)[1]

\* the step changes nothing of the index but whether the user of this ID is
\* recorded in the room of this ID: every other user has the entry and the
\* set it had, and this user is in the other rooms it was in
changesOnly(id, roomid) ==
  /\ \A other \in indexedIDs \ {id} :
        roomsOf(userList', other) = roomsOf(userList, other)
  /\ recorded(userList', id) \ {roomid} = recorded(userList, id) \ {roomid}

\* a join of the user of this ID in the room of this ID has been recorded
joinRecorded(id, roomid) ==
  /\ changesOnly(id, roomid)
  /\ roomid \in recorded(userList', id)
  /\ roomid \in recorded(userList, id) => userList' = userList

\* a leave of the user of this ID in the room of this ID has been recorded
leaveRecorded(id, roomid) ==
  /\ changesOnly(id, roomid)
  /\ roomid \notin recorded(userList', id)

\* C33: a join or a leave of a user U in a joined room R, decoded from a
\* frame or recorded by a call of userJoinedRoom or userLeftRoom, raises
\* nothing and changes nothing of the membership index but whether U is
\* recorded in R: every other user keeps its entry and its set, U stays in
\* every other room it was in, after a join U is recorded in R and after a
\* leave it is not, and a join of a user already recorded in R leaves
\* userList as it was.
C33_OnlyThatMembership ==
  [][/\ \A f \in IndexParts :
          (result'.args = <<IndexFrames[f]>> /\ result'.call = "Message"
             /\ newMessage(IndexFrames[f])) =>
            /\ result'.raised = ""
            /\ f.tag = S_J => joinRecorded(toID(f.name), roomIDOf(f.first))
            /\ f.tag = S_L => leaveRecorded(toID(f.name), roomIDOf(f.first))
     /\ \A user \in IndexUsers : \A r \in 1..Len(rooms) :
          /\ (result'.args = <<user, r>> /\ result'.call = "userJoinedRoom"
                /\ userJoinedRoom_(user, r)) =>
               (result'.raised = "" /\ joinRecorded(user.id, rooms[r].id))
          /\ (result'.args = <<user, r>> /\ result'.call = "userLeftRoom"
                /\ userLeftRoom_(user, r)) =>
               (result'.raised = "" /\ leaveRecorded(user.id, rooms[r].id))
    ]_vars

\* C33 witness: the join frame of the user b in the lobby has been decoded
\* when b was recorded in the room a and the session's own user in the
\* lobby: b is recorded in both rooms, the session's own user in the lobby
\* alone
C33_Witness ==
  /\ result.call = "Message"
  /\ result.args = <<IndexFrames[[first |-> <<>>, tag |-> S_J, name |-> <<"b">>]]>>
  /\ result.raised = ""
  /\ recorded(userList, <<"b">>) = {<<"a">>, S_lobby}
  /\ recorded(userList, This.id) = {S_lobby}

====
